---- MODULE Spec2Model ----
(***************************************************************************)
(* pyclog: the .clog container (constants.py), ClogWriter (writer.py) and  *)
(* ClogReader (reader.py).                                                 *)
(*                                                                         *)
(* A file is the sequence of its bytes (integers 0..255); a str is the     *)
(* sequence of its code points.  file.write appends its argument to the    *)
(* file in one step, so another process sees the file at the boundaries of *)
(* the write calls (after a chunk header, before its payload).             *)
(***************************************************************************)
EXTENDS Integers, Sequences, FiniteSets, TLC

(***************************************************************************)
(* Bounds of the model.                                                    *)
(***************************************************************************)
MaxWrites == 2
MaxTime == 1
MaxTail == 2

(***************************************************************************)
(* constants.py                                                            *)
(***************************************************************************)
MAGIC_BYTES == <<67, 76, 79, 71>>
FORMAT_VERSION == 1
COMPRESSION_NONE == <<0>>
COMPRESSION_GZIP == <<1>>
COMPRESSION_ZSTANDARD == <<2>>
RESERVED_BYTES == <<0, 0, 0, 0, 0, 0, 0, 0>>
RECORD_DELIMITER == 10
FIELD_DELIMITER == 9
\* '\v', the byte that stands for a newline inside a stored message
SENTINEL == 11

Min(a, b) == IF a < b THEN a ELSE b
Max(a, b) == IF a < b THEN b ELSE a

(***************************************************************************)
(* struct.pack / struct.unpack, little-endian.                             *)
(***************************************************************************)
PackH(n) == <<n % 256, (n \div 256) % 256>>
UnpackH(b) == b[1] + 256 * b[2]
PackI(n) == <<n % 256, (n \div 256) % 256, (n \div 65536) % 256, (n \div 16777216) % 256>>
\* the model's integers end at 2^31 - 1: a field of 2^31 or more unpacks to that,
\* which is, like the field, more than the length of any file here
UnpackI(b) ==
    IF b[4] >= 128 THEN 2147483647
    ELSE b[1] + 256 * b[2] + 65536 * b[3] + 16777216 * b[4]
\* '2s': the argument cut or zero-padded to two bytes
Pack2s(b) == <<IF Len(b) >= 1 THEN b[1] ELSE 0, IF Len(b) >= 2 THEN b[2] ELSE 0>>
\* bytes.rstrip(b'\x00')
RECURSIVE RStripZero(_)
RStripZero(b) ==
    IF b # <<>> /\ b[Len(b)] = 0 THEN RStripZero(SubSeq(b, 1, Len(b) - 1)) ELSE b

\* struct.pack('<4sH2s8s', MAGIC_BYTES, FORMAT_VERSION, compression_code, reserved)
PackHeader(magic, version, code) == magic \o PackH(version) \o Pack2s(code) \o RESERVED_BYTES
\* struct.pack('<III', compressed_size, uncompressed_size, record_count)
PackChunkHeader(csize, usize, count) == PackI(csize) \o PackI(usize) \o PackI(count)
UnpackChunkHeader(b) ==
    [compressed_size |-> UnpackI(SubSeq(b, 1, 4)),
     uncompressed_size |-> UnpackI(SubSeq(b, 5, 8)),
     count |-> UnpackI(SubSeq(b, 9, 12))]

\* file.read(n) at position pos (0-based): what is there, at most n bytes
FileRead(file, pos, n) == SubSeq(file, pos + 1, pos + Min(n, Max(Len(file) - pos, 0)))

(***************************************************************************)
(* str.encode('utf-8') / bytes.decode('utf-8') for code points below 2048. *)
(***************************************************************************)
RECURSIVE Utf8Encode(_)
Utf8Encode(s) ==
    IF s = <<>> THEN <<>>
    ELSE (IF s[1] < 128 THEN <<s[1]>>
          ELSE <<192 + (s[1] \div 64), 128 + (s[1] % 64)>>) \o Utf8Encode(Tail(s))

RECURSIVE Utf8Decode(_)
Utf8Decode(b) ==
    IF b = <<>> THEN [ok |-> TRUE, str |-> <<>>]
    ELSE IF b[1] < 128
         THEN LET rest == Utf8Decode(Tail(b))
              IN [ok |-> rest.ok, str |-> <<b[1]>> \o rest.str]
    ELSE IF b[1] >= 194 /\ b[1] <= 223 /\ Len(b) >= 2 /\ b[2] >= 128 /\ b[2] <= 191
         THEN LET rest == Utf8Decode(SubSeq(b, 3, Len(b)))
              IN [ok |-> rest.ok, str |-> <<(b[1] - 192) * 64 + (b[2] - 128)>> \o rest.str]
    ELSE [ok |-> FALSE, str |-> <<>>]

\* str.replace(old, new) for one-character old and new
RECURSIVE Replace(_, _, _)
Replace(s, old, new) ==
    IF s = <<>> THEN <<>>
    ELSE <<IF s[1] = old THEN new ELSE s[1]>> \o Replace(Tail(s), old, new)

\* the index of the first d in s, 0 when there is none
FirstIndex(s, d) ==
    IF \E i \in 1..Len(s) : s[i] = d
    THEN CHOOSE i \in 1..Len(s) : s[i] = d /\ \A j \in 1..(i - 1) : s[j] # d
    ELSE 0

\* s.split(d, maxsplit); maxsplit = -1 splits at every d
RECURSIVE Split(_, _, _)
Split(s, d, maxsplit) ==
    LET i == FirstIndex(s, d)
    IN IF i = 0 \/ maxsplit = 0 THEN <<s>>
       ELSE <<SubSeq(s, 1, i - 1)>> \o Split(SubSeq(s, i + 1, Len(s)), d, maxsplit - 1)

RECURSIVE Concat(_)
Concat(ss) == IF ss = <<>> THEN <<>> ELSE ss[1] \o Concat(Tail(ss))

RECURSIVE SumLen(_)
SumLen(ss) == IF ss = <<>> THEN 0 ELSE Len(ss[1]) + SumLen(Tail(ss))

(***************************************************************************)
(* The codecs.  gzip and zstandard are library code: each is modelled as a *)
(* framing of the data (magic bytes, the data, and for gzip the length     *)
(* trailer) that its decompressor checks and removes.                      *)
(***************************************************************************)
GZIP_MAGIC == <<31, 139>>
ZSTD_MAGIC == <<40, 181>>

GzipCompress(data) == GZIP_MAGIC \o data \o <<Len(data) % 256>>
\* gzip.decompress: no member at all gives b''; a bad or cut member raises
GzipDecompress(c) ==
    IF c = <<>> THEN [ok |-> TRUE, data |-> <<>>]
    ELSE IF Len(c) >= 3 /\ SubSeq(c, 1, 2) = GZIP_MAGIC /\ c[Len(c)] = (Len(c) - 3) % 256
         THEN [ok |-> TRUE, data |-> SubSeq(c, 3, Len(c) - 1)]
    ELSE [ok |-> FALSE, data |-> <<>>]

ZstdCompress(data) == ZSTD_MAGIC \o <<Len(data) % 256>> \o data
\* ZstdDecompressor().decompress: the frame holds its content size
ZstdDecompress(c) ==
    IF Len(c) >= 3 /\ SubSeq(c, 1, 2) = ZSTD_MAGIC /\ c[3] = (Len(c) - 3) % 256
    THEN [ok |-> TRUE, data |-> SubSeq(c, 4, Len(c))]
    ELSE [ok |-> FALSE, data |-> <<>>]

\* ClogWriter._compress_chunk: exc is "" or the exception raised
CompressChunk(code, data, zstd_ok) ==
    IF code = COMPRESSION_NONE THEN [exc |-> "", data |-> data]
    ELSE IF code = COMPRESSION_GZIP THEN [exc |-> "", data |-> GzipCompress(data)]
    ELSE IF code = COMPRESSION_ZSTANDARD
         THEN IF ~zstd_ok THEN [exc |-> "UnsupportedCompressionError", data |-> <<>>]
              ELSE [exc |-> "", data |-> ZstdCompress(data)]
    ELSE [exc |-> "UnsupportedCompressionError", data |-> <<>>]

\* ClogReader._decompress_chunk
DecompressChunk(code, c, zstd_ok) ==
    IF code = COMPRESSION_NONE THEN [exc |-> "", data |-> c]
    ELSE IF code = COMPRESSION_GZIP
         THEN LET r == GzipDecompress(c)
              IN [exc |-> IF r.ok THEN "" ELSE "ClogReadError", data |-> r.data]
    ELSE IF code = COMPRESSION_ZSTANDARD
         THEN IF ~zstd_ok THEN [exc |-> "UnsupportedCompressionError", data |-> <<>>]
              ELSE LET r == ZstdDecompress(c)
                   IN [exc |-> IF r.ok THEN "" ELSE "ClogReadError", data |-> r.data]
    ELSE [exc |-> "UnsupportedCompressionError", data |-> <<>>]

(***************************************************************************)
(* Records.                                                                *)
(***************************************************************************)
\* datetime.now().isoformat(): the clock reading, written as a digit
Timestamp(t) == <<48 + t>>

\* ClogWriter.write_record: the bytes of one record
RecordBytes(timestamp, level, message) ==
    Utf8Encode(timestamp \o <<FIELD_DELIMITER>> \o level \o <<FIELD_DELIMITER>>
               \o Replace(message, RECORD_DELIMITER, SENTINEL) \o <<RECORD_DELIMITER>>)

\* read_records raising on a fragment that has not three parts
RECURSIVE ParseFragmentsStrict(_)
ParseFragmentsStrict(frags) ==
    IF frags = <<>> THEN [exc |-> "", records |-> <<>>]
    ELSE IF frags[1] = <<>> THEN ParseFragmentsStrict(Tail(frags))
    ELSE LET d == Utf8Decode(frags[1])
             parts == Split(d.str, FIELD_DELIMITER, 2)
         IN IF ~d.ok \/ Len(parts) # 3 THEN [exc |-> "ClogReadError", records |-> <<>>]
            ELSE LET rest == ParseFragmentsStrict(Tail(frags))
                 IN [exc |-> rest.exc, records |-> <<parts>> \o rest.records]

\* ClogReader.read_records, the body of the loop over one chunk: the records
\* yielded from the chunk's data, and whether a fragment failed to decode (which
\* raises ClogReadError after the records before it were yielded)
RECURSIVE ParseFragments(_)
ParseFragments(frags) ==
    IF frags = <<>> THEN [exc |-> "", records |-> <<>>]
    ELSE IF frags[1] = <<>> THEN ParseFragments(Tail(frags))
    ELSE LET d == Utf8Decode(frags[1])
         IN IF ~d.ok THEN [exc |-> "ClogReadError", records |-> <<>>]
            ELSE LET parts == Split(d.str, FIELD_DELIMITER, 2)
                     rest == ParseFragments(Tail(frags))
                 IN [exc |-> rest.exc,
                     records |-> (IF Len(parts) = 3 THEN <<parts>> ELSE <<>>) \o rest.records]
ParseRecords(data) == ParseFragments(Split(data, RECORD_DELIMITER, -1))

\* ClogReader.tail, the parsing of one chunk: a fragment that fails is skipped
RECURSIVE TailParseFragments(_)
TailParseFragments(frags) ==
    IF frags = <<>> THEN <<>>
    ELSE IF frags[1] = <<>> THEN TailParseFragments(Tail(frags))
    ELSE LET d == Utf8Decode(frags[1])
             parts == Split(d.str, FIELD_DELIMITER, 2)
         IN (IF d.ok /\ Len(parts) = 3 THEN <<parts>> ELSE <<>>)
            \o TailParseFragments(Tail(frags))
TailParseRecords(data) == TailParseFragments(Split(data, RECORD_DELIMITER, -1))

(***************************************************************************)
(* State.                                                                  *)
(***************************************************************************)
VARIABLES
    exists,                 \* the path names a file
    disk,                   \* the bytes of that file
    zstd,                   \* the zstandard module was imported (zstd is not None)
    now,                    \* the clock: time.time() and datetime.now()
    \* ClogWriter
    w_state,                \* "new" before __init__, "ready" after, "failed" when it raised
    mode,
    compression_code,
    buffer_flush_size,
    buffer_flush_records,
    flush_interval,
    w_file,                 \* self.file: "none", "open" or "closed"
    buffer,
    buffer_current_size,
    buffer_current_records,
    last_flush_time,
    lock,                   \* self.lock: 0 when free, else the thread holding it
    w_thread,               \* per thread: where it is, in which call, with which arguments
    w_chunk,                \* _flush_chunk's locals: chunk_header and compressed_data
    \* ClogReader
    r_state,                \* "new" before __init__, "ready", "failed", "closed"
    r_file,                 \* self.file: "none", "open" or "closed"
    r_compression_code,
    r_pos,                  \* the position of self.file
    r_pc,                   \* where the running read_chunks / tail call is
    r_follow,
    r_header,               \* read_chunks' unpacked chunk header
    r_chunks,               \* what read_chunks has yielded
    r_out,                  \* what read_records has yielded
    r_exc,                  \* the exception the reader raised, "" for none
    r_calls,                \* the calls made on the reader, in order
    tail_n,
    chunks_map,
    chunks_to_read,
    results,
    tail_result,            \* what the last tail call returned
    \* History, read by the properties only
    accepted,               \* the records appended to the buffer, in lock order, each with
                            \* the buffer's counters and the time since the last flush
    written,                \* the chunks the writer wrote whole, with how
    closed_at,              \* Len(accepted) when close() released the file, -1 before
    closes,                 \* the number of close() calls made
    flush_failed,           \* a _flush_chunk call has raised
    \* ClogFileHandler
    h_state,                \* "new" before __init__, "ready" after, "closed" after close()
    h_mode,
    h_compression_code,
    clog_writer,            \* self.clog_writer: "none" or "set"
    h_pc,                   \* 0, or the thread inside ClogFileHandler.close()
    \* AsyncClogHandler
    a_state,                \* "new" before __init__, "ready" after
    log_queue,              \* self.log_queue: the records and sentinels put and not yet got
    listener,               \* self.listener: "none" or "set"
    l_pc,                   \* the listener's thread: "none" before start(), "get" in
                            \* queue.get, "handle" in target_handler.handle, "done" ended
    a_pc,                   \* the calling thread: "idle", or "join" inside listener.stop()
    \* History, read by the properties only
    logged,                 \* the (level, message) logged through a handler, in order
    stops                   \* the number of stop() calls that returned

fsvars == <<exists, disk, zstd>>
cfgvars == <<mode, compression_code, buffer_flush_size, buffer_flush_records, flush_interval>>
bufvars == <<buffer, buffer_current_size, buffer_current_records, last_flush_time>>
wvars == <<w_state, cfgvars, w_file, bufvars, lock, w_thread, w_chunk>>
tailvars == <<tail_n, chunks_map, chunks_to_read, results, tail_result>>
rvars == <<r_state, r_file, r_compression_code, r_pos, r_pc, r_follow, r_header, r_chunks,
           r_out, r_exc, r_calls, tailvars>>
hvars == <<accepted, written, closed_at, closes, flush_failed>>
lvars == <<h_state, h_mode, h_compression_code, clog_writer, h_pc, a_state, log_queue, listener,
           l_pc, a_pc, logged, stops>>
vars == <<fsvars, now, wvars, rvars, hvars, lvars>>

NumThreads == 2
Threads == 1..NumThreads

IdleThread ==
    [pc |-> "idle", op |-> "", level |-> <<>>, message |-> <<>>, exc |-> "", warned |-> ""]
NoChunk == [header |-> <<>>, payload |-> <<>>]
NoHeader == [compressed_size |-> 0, uncompressed_size |-> 0, count |-> 0]

(***************************************************************************)
(* ClogWriter.__init__ and _open_file.                                     *)
(***************************************************************************)
\* the validation with the comparison of the compression codes left out
ValidateHeaderForAppendNoCode(file, code) ==
    LET header == FileRead(file, 0, 16)
    IN IF Len(header) < 16 THEN "InvalidClogFileError"
       ELSE IF SubSeq(header, 1, 4) # MAGIC_BYTES THEN "InvalidClogFileError"
       ELSE IF UnpackH(SubSeq(header, 5, 6)) # FORMAT_VERSION THEN "InvalidClogFileError"
       ELSE ""

\* ClogWriter._validate_header_for_append: "" or the exception raised
ValidateHeaderForAppend(file, code) ==
    LET header == FileRead(file, 0, 16)
    IN IF Len(header) < 16 THEN "InvalidClogFileError"
       ELSE IF SubSeq(header, 1, 4) # MAGIC_BYTES THEN "InvalidClogFileError"
       ELSE IF UnpackH(SubSeq(header, 5, 6)) # FORMAT_VERSION THEN "InvalidClogFileError"
       ELSE IF RStripZero(SubSeq(header, 7, 8)) # RStripZero(code) THEN "ClogWriteError"
       ELSE ""

\* ClogWriter._write_header: the bytes written
WriteHeader(code) == PackHeader(MAGIC_BYTES, FORMAT_VERSION, code)

\* _open_file taking every mode for 'w'
OpenFileAlwaysCreates(m, code, ex, file) ==
    [exc |-> "", exists |-> TRUE, disk |-> WriteHeader(code), file |-> "open"]

\* ClogWriter._open_file under __init__'s try: the exception raised, the file after
\* it, and the state of the handle
OpenFile(m, code, ex, file) ==
    IF m = "a" /\ ex
    THEN LET e == ValidateHeaderForAppend(file, code)
         IN [exc |-> e, exists |-> TRUE, disk |-> file,
             file |-> IF e = "" THEN "open" ELSE "closed"]
    ELSE [exc |-> "", exists |-> TRUE, disk |-> WriteHeader(code), file |-> "open"]

\* ClogWriter(file_path, mode, compression_code, buffer_flush_size,
\*            buffer_flush_records, flush_interval)
ClogWriterNew(m, code, fsize, frecords, finterval) ==
    /\ w_state = "new"
    /\ LET o == OpenFile(m, code, exists, disk)
       IN /\ exists' = o.exists
          /\ disk' = o.disk
          /\ w_file' = o.file
          /\ w_state' = IF o.exc = "" THEN "ready" ELSE "failed"
          /\ w_thread' = [w_thread EXCEPT ![1].exc = o.exc]
    /\ mode' = m
    /\ compression_code' = code
    /\ buffer_flush_size' = fsize
    /\ buffer_flush_records' = frecords
    /\ flush_interval' = finterval
    /\ buffer' = <<>>
    /\ buffer_current_size' = 0
    /\ buffer_current_records' = 0
    /\ last_flush_time' = now
    /\ lock' = 0
    /\ UNCHANGED <<zstd, now, w_chunk, rvars, hvars>>

WriterInit(m, code, fsize, frecords, finterval) ==
    /\ ClogWriterNew(m, code, fsize, frecords, finterval)
    /\ UNCHANGED lvars

(***************************************************************************)
(* ClogWriter.write_record, _flush_chunk and close.                        *)
(***************************************************************************)
\* the call: the thread arrives at `with self.lock`
WriteRecordEnter(t, level, message) ==
    /\ w_state = "ready"
    /\ w_thread[t].pc = "idle"
    /\ Len(accepted) + Cardinality({u \in Threads : w_thread[u].pc = "lock"}) < MaxWrites
    /\ w_thread' = [w_thread EXCEPT ![t] =
           [pc |-> "lock", op |-> "write", level |-> level, message |-> message, exc |-> "",
            warned |-> ""]]
    /\ UNCHANGED <<fsvars, now, w_state, cfgvars, w_file, bufvars, lock, w_chunk, rvars, hvars>>

WriteRecordCall(t, level, message) ==
    /\ WriteRecordEnter(t, level, message)
    /\ UNCHANGED lvars

\* the test without its size trigger
FlushNeededNoSize(size, records, buf, time_since_flush) ==
    \/ records >= buffer_flush_records
    \/ (buf # <<>> /\ time_since_flush >= flush_interval)

\* the test with the interval left out of the time trigger
FlushNeededNoInterval(size, records, buf, time_since_flush) ==
    \/ size >= buffer_flush_size
    \/ records >= buffer_flush_records
    \/ buf # <<>>

\* the test without its count trigger
FlushNeededNoRecords(size, records, buf, time_since_flush) ==
    \/ size >= buffer_flush_size
    \/ (buf # <<>> /\ time_since_flush >= flush_interval)

\* write_record's test of the three triggers, after the append
FlushNeeded(size, records, buf, time_since_flush) ==
    \/ size >= buffer_flush_size
    \/ records >= buffer_flush_records
    \/ (buf # <<>> /\ time_since_flush >= flush_interval)

\* _flush_chunk up to its first file write: the chunk it is about to write
FlushPrepare(buf, records) ==
    LET records_data == Concat(buf)
        c == CompressChunk(compression_code, records_data, zstd)
    IN [exc |-> c.exc,
        header |-> PackChunkHeader(Len(c.data), Len(records_data), records),
        payload |-> c.data]

\* `with self.lock:` lets the thread in
Unlocked == TRUE
LockAcquire == lock = 0

\* write_record under the lock, up to the flush: serialise, append, count, test
WriteRecordAppend(t) ==
    /\ w_thread[t].pc = "lock"
    /\ w_thread[t].op = "write"
    /\ LockAcquire
    /\ LET record_bytes == RecordBytes(Timestamp(now), w_thread[t].level, w_thread[t].message)
           buf == Append(buffer, record_bytes)
           size == buffer_current_size + Len(record_bytes)
           records == buffer_current_records + 1
           f == FlushPrepare(buf, records)
       IN /\ buffer' = buf
          /\ buffer_current_size' = size
          /\ buffer_current_records' = records
          /\ accepted' = Append(accepted,
                 [thread |-> t, timestamp |-> Timestamp(now), level |-> w_thread[t].level,
                  message |-> w_thread[t].message, bytes |-> record_bytes,
                  size |-> size, records |-> records, since |-> now - last_flush_time])
          /\ IF ~FlushNeeded(size, records, buf, now - last_flush_time)
             THEN /\ w_thread' = [w_thread EXCEPT ![t] = IdleThread]
                  /\ UNCHANGED <<lock, w_chunk, flush_failed>>
             ELSE IF f.exc # ""
             THEN /\ w_thread' = [w_thread EXCEPT ![t] = [IdleThread EXCEPT !.exc = f.exc]]
                  /\ flush_failed' = TRUE
                  /\ UNCHANGED <<lock, w_chunk>>
             ELSE /\ w_thread' = [w_thread EXCEPT ![t].pc = "header"]
                  /\ lock' = t
                  /\ w_chunk' = [header |-> f.header, payload |-> f.payload]
                  /\ UNCHANGED flush_failed
    /\ UNCHANGED <<fsvars, now, w_state, cfgvars, w_file, last_flush_time, rvars, written,
                   closed_at, closes>>
    /\ UNCHANGED lvars

\* _flush_chunk: self.file.write(chunk_header)
FlushWriteHeader(t) ==
    /\ w_thread[t].pc = "header"
    /\ lock = t
    /\ IF w_file = "open"
       THEN /\ disk' = disk \o w_chunk.header
            /\ w_thread' = [w_thread EXCEPT ![t].pc = "payload"]
            /\ UNCHANGED <<lock, w_chunk, flush_failed>>
       ELSE \* self.file is None, or a closed file: the call raises, `with` releases the lock
            /\ w_thread' = [w_thread EXCEPT ![t] = [IdleThread EXCEPT !.exc =
                   IF w_file = "none" THEN "AttributeError" ELSE "ValueError"]]
            /\ lock' = 0
            /\ w_chunk' = NoChunk
            /\ flush_failed' = TRUE
            /\ UNCHANGED disk
    /\ UNCHANGED <<exists, zstd, now, w_state, cfgvars, w_file, bufvars, rvars, accepted,
                   written, closed_at, closes>>
    /\ UNCHANGED lvars

\* the flush without the reset of the buffer and its counters
FlushWritePayloadNoReset(t) ==
    /\ w_thread[t].pc = "payload"
    /\ lock = t
    /\ disk' = disk \o w_chunk.payload
    /\ written' = Append(written, [header |-> w_chunk.header, payload |-> w_chunk.payload,
                                   data |-> Concat(buffer), count |-> buffer_current_records,
                                   by |-> w_thread[t].op])
    /\ IF w_thread[t].op = "write"
       THEN /\ last_flush_time' = now
            /\ UNCHANGED <<w_file, closed_at>>
       ELSE /\ w_file' = "none"
            /\ closed_at' = Len(accepted)
            /\ UNCHANGED last_flush_time
    /\ w_thread' = [w_thread EXCEPT ![t] = IdleThread]
    /\ lock' = 0
    /\ w_chunk' = NoChunk
    /\ UNCHANGED <<exists, zstd, now, w_state, cfgvars, buffer, buffer_current_size,
                   buffer_current_records, rvars, accepted, closes, flush_failed>>
    /\ UNCHANGED lvars

\* _flush_chunk: self.file.write(compressed_data), the buffer reset, and the rest of
\* the caller under the lock: write_record sets last_flush_time, close releases
\* the file
FlushWritePayload(t) ==
    /\ w_thread[t].pc = "payload"
    /\ lock = t
    /\ disk' = disk \o w_chunk.payload
    /\ buffer' = <<>>
    /\ buffer_current_size' = 0
    /\ buffer_current_records' = 0
    /\ written' = Append(written, [header |-> w_chunk.header, payload |-> w_chunk.payload,
                                   data |-> Concat(buffer), count |-> buffer_current_records,
                                   by |-> w_thread[t].op])
    /\ IF w_thread[t].op = "write"
       THEN /\ last_flush_time' = now
            /\ UNCHANGED <<w_file, closed_at>>
       ELSE /\ w_file' = "none"
            /\ closed_at' = Len(accepted)
            /\ UNCHANGED last_flush_time
    /\ w_thread' = [w_thread EXCEPT ![t] = IdleThread]
    /\ lock' = 0
    /\ w_chunk' = NoChunk
    /\ UNCHANGED <<exists, zstd, now, w_state, cfgvars, rvars, accepted, closes,
                   flush_failed>>
    /\ UNCHANGED lvars

\* the call of close(): the thread arrives at `with self.lock`
CloseArrive(t) ==
    /\ w_state = "ready"
    /\ w_thread[t].pc = "idle"
    /\ closes' = closes + 1
    /\ w_thread' = [w_thread EXCEPT ![t] =
           [pc |-> "lock", op |-> "close", level |-> <<>>, message |-> <<>>, exc |-> "",
            warned |-> ""]]
    /\ UNCHANGED <<fsvars, now, w_state, cfgvars, w_file, bufvars, lock, w_chunk, rvars,
                   accepted, written, closed_at, flush_failed>>

CloseCall(t) ==
    /\ CloseArrive(t)
    /\ UNCHANGED lvars

\* close() without its test of self.file: self.file.close() on None raises
CloseEnterNoGuard(t) ==
    /\ w_thread[t].pc = "lock"
    /\ w_thread[t].op = "close"
    /\ LockAcquire
    /\ w_thread' = [w_thread EXCEPT ![t] =
           [IdleThread EXCEPT !.exc = IF w_file = "none" THEN "AttributeError" ELSE ""]]
    /\ w_file' = "none"
    /\ closed_at' = IF closed_at = -1 THEN Len(accepted) ELSE closed_at
    /\ UNCHANGED <<fsvars, now, w_state, cfgvars, bufvars, lock, w_chunk, rvars, accepted,
                   written, closes, flush_failed>>
    /\ UNCHANGED lvars

\* close() releasing the file without the flush
CloseEnterNoFlush(t) ==
    /\ w_thread[t].pc = "lock"
    /\ w_thread[t].op = "close"
    /\ LockAcquire
    /\ w_thread' = [w_thread EXCEPT ![t] = IdleThread]
    /\ IF w_file = "open"
       THEN w_file' = "none" /\ closed_at' = Len(accepted)
       ELSE UNCHANGED <<w_file, closed_at>>
    /\ UNCHANGED <<fsvars, now, w_state, cfgvars, bufvars, lock, w_chunk, rvars, accepted,
                   written, closes, flush_failed>>
    /\ UNCHANGED lvars

\* close() whose flush has no test of the empty buffer
CloseEnterFlushesEmpty(t) ==
    /\ w_thread[t].pc = "lock"
    /\ w_thread[t].op = "close"
    /\ LockAcquire
    /\ LET f == FlushPrepare(buffer, buffer_current_records)
       IN IF w_file = "open"
          THEN /\ w_thread' = [w_thread EXCEPT ![t].pc = "header"]
               /\ lock' = t
               /\ w_chunk' = [header |-> f.header, payload |-> f.payload]
          ELSE /\ w_thread' = [w_thread EXCEPT ![t] = IdleThread]
               /\ UNCHANGED <<lock, w_chunk>>
    /\ UNCHANGED <<fsvars, now, w_state, cfgvars, w_file, bufvars, rvars, hvars, lvars>>

\* close() under the lock, up to the flush's first file write
CloseEnter(t) ==
    /\ w_thread[t].pc = "lock"
    /\ w_thread[t].op = "close"
    /\ LockAcquire
    /\ LET f == FlushPrepare(buffer, buffer_current_records)
       IN IF w_file = "none"
          THEN \* if self.file: is false
               /\ w_thread' = [w_thread EXCEPT ![t] = IdleThread]
               /\ UNCHANGED <<w_file, lock, w_chunk, closed_at, flush_failed>>
          ELSE IF buffer = <<>>
          THEN \* _flush_chunk returns at once; finally: close, self.file = None
               /\ w_thread' = [w_thread EXCEPT ![t] = IdleThread]
               /\ w_file' = "none"
               /\ closed_at' = Len(accepted)
               /\ UNCHANGED <<lock, w_chunk, flush_failed>>
          ELSE IF f.exc # ""
          THEN \* not a ClogWriteError: finally releases the file, the error goes on
               /\ w_thread' = [w_thread EXCEPT ![t] = [IdleThread EXCEPT !.exc = f.exc]]
               /\ w_file' = "none"
               /\ closed_at' = Len(accepted)
               /\ flush_failed' = TRUE
               /\ UNCHANGED <<lock, w_chunk>>
          ELSE IF w_file = "closed"
          THEN \* the write on a closed file raises ValueError; finally releases the file
               /\ w_thread' = [w_thread EXCEPT ![t] = [IdleThread EXCEPT !.exc = "ValueError"]]
               /\ w_file' = "none"
               /\ closed_at' = Len(accepted)
               /\ flush_failed' = TRUE
               /\ UNCHANGED <<lock, w_chunk>>
          ELSE /\ w_thread' = [w_thread EXCEPT ![t].pc = "header"]
               /\ lock' = t
               /\ w_chunk' = [header |-> f.header, payload |-> f.payload]
               /\ UNCHANGED <<w_file, closed_at, flush_failed>>
    /\ UNCHANGED <<fsvars, now, w_state, cfgvars, bufvars, rvars, accepted, written, closes>>
    /\ UNCHANGED lvars

(***************************************************************************)
(* Failing file operations: self.file.write raising IOError in             *)
(* _flush_chunk, and self.file.close() raising IOError in close().         *)
(***************************************************************************)
\* where a failing write stops: no byte, one byte or every byte has reached the file
FailPoints(bytes) == {0, 1, Len(bytes)}

\* the flush that raises and lets the buffer go
FlushRaisesRolledBack(t, close_ok) ==
    /\ lock' = 0
    /\ w_chunk' = NoChunk
    /\ flush_failed' = TRUE
    /\ buffer' = <<>>
    /\ buffer_current_size' = 0
    /\ buffer_current_records' = 0
    /\ w_thread' = [w_thread EXCEPT ![t] = [IdleThread EXCEPT !.exc = "ClogWriteError"]]
    /\ UNCHANGED <<exists, zstd, now, w_state, cfgvars, w_file, last_flush_time, rvars,
                   accepted, written, closed_at, closes>>

\* close() with its try / finally left out: the flush's error leaves it at once
FlushRaisesNoFinally(t, close_ok) ==
    /\ lock' = 0
    /\ w_chunk' = NoChunk
    /\ flush_failed' = TRUE
    /\ w_thread' = [w_thread EXCEPT ![t] = [IdleThread EXCEPT !.exc = "ClogWriteError"]]
    /\ UNCHANGED <<exists, zstd, now, w_state, cfgvars, w_file, bufvars, rvars, accepted,
                   written, closed_at, closes>>

\* the flush that raises and zeroes the counters, the buffer as it was
FlushRaisesCountersReset(t, close_ok) ==
    /\ lock' = 0
    /\ w_chunk' = NoChunk
    /\ flush_failed' = TRUE
    /\ buffer_current_size' = 0
    /\ buffer_current_records' = 0
    /\ IF w_thread[t].op = "write"
       THEN /\ close_ok
            /\ w_thread' = [w_thread EXCEPT ![t] = [IdleThread EXCEPT !.exc = "ClogWriteError"]]
            /\ UNCHANGED <<w_file, closed_at>>
       ELSE /\ w_thread' = [w_thread EXCEPT ![t] =
                   [IdleThread EXCEPT !.warned = "ClogWriteError",
                                      !.exc = IF close_ok THEN "" ELSE "ClogWriteError"]]
            /\ w_file' = IF close_ok THEN "none" ELSE "closed"
            /\ closed_at' = Len(accepted)
    /\ UNCHANGED <<exists, zstd, now, w_state, cfgvars, buffer, last_flush_time, rvars,
                   accepted, written, closes>>

\* _flush_chunk raises ClogWriteError, the buffer and its counters as they were.
\* In write_record the error leaves the call, last_flush_time not set. In close()
\* it is caught and printed, then self.file.close() runs: self.file = None follows
\* unless that raises too (close_ok false), when close() raises ClogWriteError
FlushRaises(t, close_ok) ==
    /\ lock' = 0
    /\ w_chunk' = NoChunk
    /\ flush_failed' = TRUE
    /\ IF w_thread[t].op = "write"
       THEN /\ close_ok
            /\ w_thread' = [w_thread EXCEPT ![t] = [IdleThread EXCEPT !.exc = "ClogWriteError"]]
            /\ UNCHANGED <<w_file, closed_at>>
       ELSE /\ w_thread' = [w_thread EXCEPT ![t] =
                   [IdleThread EXCEPT !.warned = "ClogWriteError",
                                      !.exc = IF close_ok THEN "" ELSE "ClogWriteError"]]
            /\ w_file' = IF close_ok THEN "none" ELSE "closed"
            /\ closed_at' = Len(accepted)
    /\ UNCHANGED <<exists, zstd, now, w_state, cfgvars, bufvars, rvars, accepted, written,
                   closes>>

\* _flush_chunk: self.file.write(chunk_header) raises IOError, k bytes written
FlushWriteHeaderFails(t, k, close_ok) ==
    /\ w_thread[t].pc = "header"
    /\ lock = t
    /\ w_file = "open"
    /\ k \in FailPoints(w_chunk.header)
    /\ disk' = disk \o SubSeq(w_chunk.header, 1, k)
    /\ FlushRaises(t, close_ok)
    /\ UNCHANGED lvars

\* _flush_chunk: self.file.write(compressed_data) raises IOError, k bytes written
FlushWritePayloadFails(t, k, close_ok) ==
    /\ w_thread[t].pc = "payload"
    /\ lock = t
    /\ k \in FailPoints(w_chunk.payload)
    /\ disk' = disk \o SubSeq(w_chunk.payload, 1, k)
    /\ FlushRaises(t, close_ok)
    /\ UNCHANGED lvars

\* time passes
Tick ==
    /\ now < MaxTime
    /\ now' = now + 1
    /\ UNCHANGED <<fsvars, wvars, rvars, hvars>>
    /\ UNCHANGED lvars

(***************************************************************************)
(* ClogReader.                                                             *)
(***************************************************************************)
\* exceptions.py: whether an `except IOError` clause catches the package's error exc
IsIOError(exc) == FALSE

\* _read_header's except clauses: an IOError becomes a ClogReadError, an
\* UnsupportedCompressionError goes on, anything else becomes an InvalidClogFileError
ReadHeaderExcept(exc) ==
    IF exc = "" THEN ""
    ELSE IF IsIOError(exc) THEN "ClogReadError"
    ELSE IF exc = "UnsupportedCompressionError" THEN exc
    ELSE "InvalidClogFileError"

\* the header read with the check of the format version left out
ReadHeaderNoVersion(file, zstd_ok) ==
    LET header == FileRead(file, 0, 16)
        code == SubSeq(header, 7, 7)
    IN IF Len(header) < 16 THEN [exc |-> "InvalidClogFileError", code |-> <<>>]
       ELSE IF SubSeq(header, 1, 4) # MAGIC_BYTES
            THEN [exc |-> "InvalidClogFileError", code |-> <<>>]
       ELSE IF code \notin {COMPRESSION_NONE, COMPRESSION_GZIP, COMPRESSION_ZSTANDARD}
            THEN [exc |-> "UnsupportedCompressionError", code |-> code]
       ELSE IF code = COMPRESSION_ZSTANDARD /\ ~zstd_ok
            THEN [exc |-> "UnsupportedCompressionError", code |-> code]
       ELSE [exc |-> "", code |-> code]

\* ClogReader._read_header: the exception raised ("" for none) and
\* self.compression_code as the call leaves it
ReadHeader(file, zstd_ok) ==
    LET header == FileRead(file, 0, 16)
        code == SubSeq(header, 7, 7)
    IN IF Len(header) < 16
            THEN [exc |-> ReadHeaderExcept("InvalidClogFileError"), code |-> <<>>]
       ELSE IF SubSeq(header, 1, 4) # MAGIC_BYTES
            THEN [exc |-> ReadHeaderExcept("InvalidClogFileError"), code |-> <<>>]
       ELSE IF UnpackH(SubSeq(header, 5, 6)) # FORMAT_VERSION
            THEN [exc |-> ReadHeaderExcept("InvalidClogFileError"), code |-> <<>>]
       ELSE IF code \notin {COMPRESSION_NONE, COMPRESSION_GZIP, COMPRESSION_ZSTANDARD}
            THEN [exc |-> ReadHeaderExcept("UnsupportedCompressionError"), code |-> code]
       ELSE IF code = COMPRESSION_ZSTANDARD /\ ~zstd_ok
            THEN [exc |-> ReadHeaderExcept("UnsupportedCompressionError"), code |-> code]
       ELSE [exc |-> "", code |-> code]

\* ClogReader(file_path): _open_file, _read_header, and the close on failure
ReaderInit ==
    /\ r_state = "new"
    /\ IF ~exists
       THEN /\ r_state' = "failed"
            /\ r_exc' = "ClogReadError"
            /\ UNCHANGED <<r_file, r_compression_code, r_pos>>
       ELSE LET h == ReadHeader(disk, zstd)
            IN /\ r_exc' = h.exc
               /\ r_compression_code' = h.code
               /\ r_pos' = Len(FileRead(disk, 0, 16))
               /\ r_state' = IF h.exc = "" THEN "ready" ELSE "failed"
               /\ r_file' = IF h.exc = "" THEN "open" ELSE "closed"
    /\ UNCHANGED <<fsvars, now, wvars, r_pc, r_follow, r_header, r_chunks, r_out, r_calls,
                   tailvars, hvars>>
    /\ UNCHANGED lvars

\* read_records(follow): the iteration starts
ReadRecordsCall(follow) ==
    /\ r_state \in {"ready", "closed"}
    /\ r_pc = "idle"
    /\ r_pc' = "header"
    /\ r_follow' = follow
    /\ r_chunks' = <<>>
    /\ r_out' = <<>>
    /\ r_calls' = Append(r_calls, IF follow THEN "follow" ELSE "read")
    /\ UNCHANGED <<fsvars, now, wvars, r_state, r_file, r_compression_code, r_pos, r_header,
                   r_exc, tailvars, hvars>>
    /\ UNCHANGED lvars

\* read_chunks taking a header cut short for the end of the data
ReadChunkHeaderPartialAsEnd ==
    /\ r_pc = "header"
    /\ LET chunk_header_bytes == FileRead(disk, r_pos, 12)
       IN /\ r_pos' = r_pos + Len(chunk_header_bytes)
          /\ IF Len(chunk_header_bytes) < 12
             THEN /\ r_pc' = IF r_follow THEN "sleep" ELSE "done"
                  /\ UNCHANGED <<r_header, r_exc>>
             ELSE /\ r_pc' = "payload"
                  /\ r_header' = UnpackChunkHeader(chunk_header_bytes)
                  /\ UNCHANGED r_exc
    /\ UNCHANGED <<fsvars, now, wvars, r_state, r_file, r_compression_code, r_follow,
                   r_chunks, r_out, r_calls, tailvars, hvars, lvars>>

\* read_chunks: self.file.read(12) and what follows from its length; after close()
\* self.file is None and the attribute lookup raises
ReadChunkHeader ==
    /\ r_pc = "header"
    /\ LET chunk_header_bytes == IF r_file = "open" THEN FileRead(disk, r_pos, 12) ELSE <<>>
       IN /\ r_pos' = r_pos + Len(chunk_header_bytes)
          /\ IF r_file # "open"
             THEN /\ r_pc' = "raised"
                  /\ r_exc' = "AttributeError"
                  /\ UNCHANGED r_header
             ELSE IF chunk_header_bytes = <<>>
             THEN /\ r_pc' = IF r_follow THEN "sleep" ELSE "done"
                  /\ UNCHANGED <<r_header, r_exc>>
             ELSE IF Len(chunk_header_bytes) < 12
             THEN /\ r_pc' = "raised"
                  /\ r_exc' = "ClogReadError"
                  /\ UNCHANGED r_header
             ELSE /\ r_pc' = "payload"
                  /\ r_header' = UnpackChunkHeader(chunk_header_bytes)
                  /\ UNCHANGED r_exc
    /\ UNCHANGED <<fsvars, now, wvars, r_state, r_file, r_compression_code, r_follow,
                   r_chunks, r_out, r_calls, tailvars, hvars>>
    /\ UNCHANGED lvars

\* read_chunks in follow mode: time.sleep(interval) returns
ReadChunkWake ==
    /\ r_pc = "sleep"
    /\ r_pc' = "header"
    /\ UNCHANGED <<fsvars, now, wvars, r_state, r_file, r_compression_code, r_pos, r_follow,
                   r_header, r_chunks, r_out, r_exc, r_calls, tailvars, hvars>>
    /\ UNCHANGED lvars

\* read_chunks: self.file.read(compressed_size), the decompression and the yield;
\* read_records: the records of the chunk
ReadChunkPayload ==
    /\ r_pc = "payload"
    /\ LET compressed_data == FileRead(disk, r_pos, r_header.compressed_size)
           d == DecompressChunk(r_compression_code, compressed_data, zstd)
           p == ParseRecords(d.data)
       IN /\ r_pos' = r_pos + Len(compressed_data)
          /\ IF Len(compressed_data) < r_header.compressed_size
             THEN /\ r_pc' = "raised"
                  /\ r_exc' = "ClogReadError"
                  /\ UNCHANGED <<r_chunks, r_out>>
             ELSE IF d.exc # ""
             THEN /\ r_pc' = "raised"
                  /\ r_exc' = d.exc
                  /\ UNCHANGED <<r_chunks, r_out>>
             ELSE /\ r_chunks' = Append(r_chunks, [data |-> d.data, count |-> r_header.count])
                  /\ r_out' = r_out \o p.records
                  /\ r_exc' = p.exc
                  /\ r_pc' = IF p.exc = "" THEN "header" ELSE "raised"
    /\ UNCHANGED <<fsvars, now, wvars, r_state, r_file, r_compression_code, r_follow,
                   r_header, r_calls, tailvars, hvars>>
    /\ UNCHANGED lvars

\* tail(n): self.file.seek(16), which raises AttributeError when self.file is None
TailCall(n) ==
    /\ r_state \in {"ready", "closed"}
    /\ r_pc = "idle"
    /\ IF r_file = "open"
       THEN /\ r_pc' = "scan"
            /\ r_pos' = 16
            /\ UNCHANGED r_exc
       ELSE /\ r_pc' = "raised"
            /\ r_exc' = "AttributeError"
            /\ UNCHANGED r_pos
    /\ tail_n' = n
    /\ chunks_map' = <<>>
    /\ chunks_to_read' = <<>>
    /\ results' = <<>>
    /\ r_calls' = Append(r_calls, "tail")
    /\ UNCHANGED <<fsvars, now, wvars, r_state, r_file, r_compression_code, r_follow,
                   r_header, r_chunks, r_out, tail_result, hvars>>
    /\ UNCHANGED lvars

\* the second loop stopping one record short
RECURSIVE ChunksToReadShort(_, _)
ChunksToReadShort(map, needed_count) ==
    IF map = <<>> THEN <<>>
    ELSE LET chunk_info == map[Len(map)]
         IN IF needed_count - chunk_info.count <= 1 THEN <<chunk_info>>
            ELSE Append(ChunksToReadShort(SubSeq(map, 1, Len(map) - 1),
                                          needed_count - chunk_info.count), chunk_info)

\* the second loop without its break: every chunk of the map
ChunksToReadAll(map, needed_count) == map

\* tail, the second loop: the chunks to read, walking the map from its end
RECURSIVE ChunksToRead(_, _)
ChunksToRead(map, needed_count) ==
    IF map = <<>> THEN <<>>
    ELSE LET chunk_info == map[Len(map)]
         IN IF needed_count - chunk_info.count <= 0 THEN <<chunk_info>>
            ELSE Append(ChunksToRead(SubSeq(map, 1, Len(map) - 1),
                                     needed_count - chunk_info.count), chunk_info)

\* tail, the first loop: one chunk header read and the seek over its data; a read
\* of fewer than 12 bytes ends the loop, and the second loop follows
TailScan ==
    /\ r_pc = "scan"
    /\ LET chunk_header_bytes == FileRead(disk, r_pos, 12)
           h == UnpackChunkHeader(chunk_header_bytes)
           need == ChunksToRead(chunks_map, tail_n)
       IN IF Len(chunk_header_bytes) < 12
          THEN /\ r_pos' = r_pos + Len(chunk_header_bytes)
               /\ chunks_to_read' = need
               /\ r_pc' = IF need = <<>> THEN "seek_end" ELSE "read"
               /\ UNCHANGED chunks_map
          ELSE /\ chunks_map' = Append(chunks_map,
                       [data_offset |-> r_pos + 12, compressed_size |-> h.compressed_size,
                        uncompressed_size |-> h.uncompressed_size, count |-> h.count])
               /\ r_pos' = r_pos + 12 + h.compressed_size
               /\ UNCHANGED <<chunks_to_read, r_pc>>
    /\ UNCHANGED <<fsvars, now, wvars, r_state, r_file, r_compression_code, r_follow,
                   r_header, r_chunks, r_out, r_exc, r_calls, tail_n, results, tail_result,
                   hvars>>
    /\ UNCHANGED lvars

\* tail, the third loop: one chunk sought, read, decompressed and parsed
TailReadChunk ==
    /\ r_pc = "read"
    /\ LET chunk_info == Head(chunks_to_read)
           compressed_data == FileRead(disk, chunk_info.data_offset, chunk_info.compressed_size)
           d == DecompressChunk(r_compression_code, compressed_data, zstd)
       IN /\ r_pos' = chunk_info.data_offset + Len(compressed_data)
          /\ IF d.exc # ""
             THEN /\ r_pc' = "raised"
                  /\ r_exc' = d.exc
                  /\ UNCHANGED <<chunks_to_read, results>>
             ELSE /\ results' = results \o TailParseRecords(d.data)
                  /\ chunks_to_read' = Tail(chunks_to_read)
                  /\ r_pc' = IF Tail(chunks_to_read) = <<>> THEN "seek_end" ELSE "read"
                  /\ UNCHANGED r_exc
    /\ UNCHANGED <<fsvars, now, wvars, r_state, r_file, r_compression_code, r_follow,
                   r_header, r_chunks, r_out, r_calls, tail_n, chunks_map, tail_result, hvars>>
    /\ UNCHANGED lvars

\* results[-n:]
LastN(s, n) == SubSeq(s, Max(1, Len(s) - n + 1), Len(s))

\* tail: self.file.seek(0, 2) and the return
TailReturn ==
    /\ r_pc = "seek_end"
    /\ r_pos' = Len(disk)
    /\ tail_result' = IF tail_n > 0 THEN LastN(results, tail_n) ELSE <<>>
    /\ r_pc' = "idle"
    /\ UNCHANGED <<fsvars, now, wvars, r_state, r_file, r_compression_code, r_follow,
                   r_header, r_chunks, r_out, r_exc, r_calls, tail_n, chunks_map,
                   chunks_to_read, results, hvars>>
    /\ UNCHANGED lvars

\* close() leaving the handle in place
ReaderCloseNoRelease ==
    /\ r_state \in {"ready", "closed"}
    /\ r_pc \in {"idle", "header"}
    /\ r_state' = "closed"
    /\ r_calls' = Append(r_calls, "close")
    /\ UNCHANGED <<fsvars, now, wvars, r_file, r_compression_code, r_pos, r_pc, r_follow,
                   r_header, r_chunks, r_out, r_exc, tailvars, hvars, lvars>>

\* ClogReader.close(), called where no call of the reader is running (between calls,
\* or with a generator of read_records suspended between two chunks)
ReaderClose ==
    /\ r_state \in {"ready", "closed"}
    /\ r_pc \in {"idle", "header"}
    /\ r_state' = "closed"
    /\ r_file' = IF r_file = "open" THEN "closed" ELSE r_file
    /\ r_calls' = Append(r_calls, "close")
    /\ UNCHANGED <<fsvars, now, wvars, r_compression_code, r_pos, r_pc, r_follow,
                   r_header, r_chunks, r_out, r_exc, tailvars, hvars, lvars>>

\* the caller of read_records or tail is past the call: the generator is exhausted or
\* has raised, tail has raised
ReadReturn ==
    /\ r_pc \in {"done", "raised"}
    /\ r_pc' = "idle"
    /\ UNCHANGED <<fsvars, now, wvars, r_state, r_file, r_compression_code, r_pos, r_follow,
                   r_header, r_chunks, r_out, r_exc, r_calls, tailvars, hvars, lvars>>

(***************************************************************************)
(* Initial states.                                                         *)
(***************************************************************************)
\* no reader constructed yet
ReaderNew ==
    /\ r_state = "new"
    /\ r_file = "none"
    /\ r_compression_code = <<>>
    /\ r_pos = 0
    /\ r_pc = "idle"
    /\ r_follow = FALSE
    /\ r_header = NoHeader
    /\ r_chunks = <<>>
    /\ r_out = <<>>
    /\ r_exc = ""
    /\ r_calls = <<>>
    /\ tail_n = 0
    /\ chunks_map = <<>>
    /\ chunks_to_read = <<>>
    /\ results = <<>>
    /\ tail_result = <<>>

HistoryNew ==
    /\ accepted = <<>>
    /\ written = <<>>
    /\ closed_at = -1
    /\ closes = 0
    /\ flush_failed = FALSE

\* no handler constructed yet
HandlersNew ==
    /\ h_state = "new"
    /\ h_mode = ""
    /\ h_compression_code = <<>>
    /\ clog_writer = "none"
    /\ h_pc = 0
    /\ a_state = "new"
    /\ log_queue = <<>>
    /\ listener = "none"
    /\ l_pc = "none"
    /\ a_pc = "idle"
    /\ logged = <<>>
    /\ stops = 0

\* the state ClogWriter(path, 'w', code, fsize, frecords, finterval) leaves
WriterConstructed(code, fsize, frecords, finterval) ==
    /\ w_state = "ready"
    /\ mode = "w"
    /\ compression_code = code
    /\ buffer_flush_size = fsize
    /\ buffer_flush_records = frecords
    /\ flush_interval = finterval
    /\ exists = TRUE
    /\ disk = OpenFile("w", code, FALSE, <<>>).disk
    /\ w_file = OpenFile("w", code, FALSE, <<>>).file
    /\ buffer = <<>>
    /\ buffer_current_size = 0
    /\ buffer_current_records = 0
    /\ last_flush_time = 0
    /\ lock = 0
    /\ w_thread = [t \in Threads |-> IdleThread]
    /\ w_chunk = NoChunk

\* the defaults of ClogWriter.__init__
DEFAULT_FLUSH_SIZE == 4194304
DEFAULT_FLUSH_RECORDS == 20000
DEFAULT_FLUSH_INTERVAL == 5

(***************************************************************************)
(* ClogFileHandler.                                                        *)
(***************************************************************************)
\* what ClogWriter has as self.mode when it is handed a compression code in the
\* place of the mode: a bytes object, which is equal to no str
BytesAsMode(code) == "bytes"

\* ClogFileHandler(filename, mode, compression_code=code): _open_writer calls
\* ClogWriter(self.filename, self.compression_code), the code as second positional
\* argument, and catches ClogWriteError only
HandlerInit(m, code) ==
    /\ h_state = "new"
    /\ h_mode' = m
    /\ h_compression_code' = code
    /\ ClogWriterNew(BytesAsMode(code), COMPRESSION_GZIP, DEFAULT_FLUSH_SIZE,
                     DEFAULT_FLUSH_RECORDS, DEFAULT_FLUSH_INTERVAL)
    /\ clog_writer' = IF w_state' = "ready" THEN "set" ELSE "none"
    /\ h_state' = IF w_thread'[1].exc \in {"", "ClogWriteError"} THEN "ready" ELSE "failed"
    /\ UNCHANGED <<h_pc, a_state, log_queue, listener, l_pc, a_pc, logged, stops>>

\* ClogFileHandler.emit(record) by thread t, up to write_record's `with self.lock`;
\* what write_record raises is handed to handleError
HandlerEmit(t, level, message) ==
    /\ h_state \in {"ready", "closed"}
    /\ h_pc # t
    /\ IF clog_writer = "none"
       THEN UNCHANGED <<fsvars, now, wvars, rvars, hvars>>
       ELSE WriteRecordEnter(t, level, message)

\* a logger whose handler is the ClogFileHandler logs a record
HandlerLog(t, level, message) ==
    /\ Len(logged) < MaxWrites
    /\ w_thread[t].pc = "idle"
    /\ HandlerEmit(t, level, message)
    /\ logged' = Append(logged, <<level, message>>)
    /\ UNCHANGED <<h_state, h_mode, h_compression_code, clog_writer, h_pc, a_state, log_queue,
                   listener, l_pc, a_pc, stops>>

\* ClogFileHandler.close() by thread t, up to close()'s `with self.lock`
HandlerClose(t) ==
    /\ h_state \in {"ready", "closed"}
    /\ h_pc = 0
    /\ w_thread[t].pc = "idle"
    /\ IF clog_writer = "set"
       THEN /\ CloseArrive(t)
            /\ h_pc' = t
            /\ UNCHANGED h_state
       ELSE /\ h_state' = "closed"
            /\ UNCHANGED <<h_pc, fsvars, now, wvars, rvars, hvars>>
    /\ UNCHANGED <<h_mode, h_compression_code, clog_writer, a_state, log_queue, listener, l_pc,
                   a_pc, logged, stops>>

\* self.clog_writer.close() is over: `self.clog_writer = None` unless it raised
HandlerCloseReturn(t) ==
    /\ h_pc = t
    /\ w_thread[t].pc = "idle"
    /\ h_pc' = 0
    /\ IF w_thread[t].exc = ""
       THEN /\ clog_writer' = "none"
            /\ h_state' = "closed"
       ELSE UNCHANGED <<clog_writer, h_state>>
    /\ UNCHANGED <<fsvars, now, wvars, rvars, hvars, h_mode, h_compression_code, a_state,
                   log_queue, listener, l_pc, a_pc, logged, stops>>

(***************************************************************************)
(* AsyncClogHandler: a QueueHandler, and a QueueListener whose thread      *)
(* hands the queue's records to the target handler.                        *)
(***************************************************************************)
\* the thread QueueListener.start() starts
ListenerThread == 2
QueueRecord(level, message) == [kind |-> "record", level |-> level, message |-> message]
QueueSentinel == [kind |-> "sentinel", level |-> <<>>, message |-> <<>>]

\* AsyncClogHandler(target_handler): the queue, the listener and its start()
AsyncInit ==
    /\ a_state = "new"
    /\ h_state = "ready"
    /\ a_state' = "ready"
    /\ log_queue' = <<>>
    /\ listener' = "set"
    /\ l_pc' = "get"
    /\ UNCHANGED <<fsvars, now, wvars, rvars, hvars, h_state, h_mode, h_compression_code,
                   clog_writer, h_pc, a_pc, logged, stops>>

\* a logger whose handler is the AsyncClogHandler logs a record: QueueHandler.emit
\* puts it on the queue
AsyncEmit(level, message) ==
    /\ a_state = "ready"
    /\ a_pc = "idle"
    /\ Len(logged) < MaxWrites
    /\ log_queue' = Append(log_queue, QueueRecord(level, message))
    /\ logged' = Append(logged, <<level, message>>)
    /\ UNCHANGED <<fsvars, now, wvars, rvars, hvars, h_state, h_mode, h_compression_code,
                   clog_writer, h_pc, a_state, listener, l_pc, a_pc, stops>>

\* the listener's thread: queue.get returns; the sentinel ends the thread, a record
\* goes to target_handler.handle
ListenerGet ==
    /\ l_pc = "get"
    /\ log_queue # <<>>
    /\ log_queue' = Tail(log_queue)
    /\ IF Head(log_queue).kind = "sentinel"
       THEN /\ l_pc' = "done"
            /\ UNCHANGED <<fsvars, now, wvars, rvars, hvars>>
       ELSE /\ l_pc' = "handle"
            /\ HandlerEmit(ListenerThread, Head(log_queue).level, Head(log_queue).message)
    /\ UNCHANGED <<h_state, h_mode, h_compression_code, clog_writer, h_pc, a_state, listener,
                   a_pc, logged, stops>>

\* the listener's thread: target_handler.handle returned
ListenerHandled ==
    /\ l_pc = "handle"
    /\ w_thread[ListenerThread].pc = "idle"
    /\ l_pc' = "get"
    /\ UNCHANGED <<fsvars, now, wvars, rvars, hvars, h_state, h_mode, h_compression_code,
                   clog_writer, h_pc, a_state, log_queue, listener, a_pc, logged, stops>>

\* the calls of stop() made
MaxStops == 2

\* AsyncClogHandler.stop(): with a listener, listener.stop() puts the sentinel on the
\* queue and joins the thread; without, nothing
AsyncStop ==
    /\ a_state = "ready"
    /\ a_pc = "idle"
    /\ stops < MaxStops
    /\ IF listener = "set"
       THEN /\ log_queue' = Append(log_queue, QueueSentinel)
            /\ a_pc' = "join"
            /\ UNCHANGED stops
       ELSE /\ stops' = stops + 1
            /\ UNCHANGED <<log_queue, a_pc>>
    /\ UNCHANGED <<fsvars, now, wvars, rvars, hvars, h_state, h_mode, h_compression_code,
                   clog_writer, h_pc, a_state, listener, l_pc, logged>>

\* the join returns: `self.listener = None`, and stop() returns
AsyncStopReturn ==
    /\ a_pc = "join"
    /\ l_pc = "done"
    /\ a_pc' = "idle"
    /\ listener' = "none"
    /\ stops' = stops + 1
    /\ UNCHANGED <<fsvars, now, wvars, rvars, hvars, h_state, h_mode, h_compression_code,
                   clog_writer, h_pc, a_state, log_queue, l_pc, logged>>

\* time passing with a timer that flushes the buffer once the interval is over
SleepWithTimer(d) ==
    /\ now < MaxTime
    /\ now' = now + d
    /\ LET f == FlushPrepare(buffer, buffer_current_records)
       IN IF buffer # <<>> /\ lock = 0 /\ w_file = "open" /\ f.exc = ""
             /\ now + d - last_flush_time >= flush_interval
          THEN /\ disk' = disk \o f.header \o f.payload
               /\ buffer' = <<>>
               /\ buffer_current_size' = 0
               /\ buffer_current_records' = 0
               /\ last_flush_time' = now + d
               /\ written' = Append(written, [header |-> f.header, payload |-> f.payload,
                                              data |-> Concat(buffer),
                                              count |-> buffer_current_records, by |-> "timer"])
          ELSE UNCHANGED <<disk, bufvars, written>>
    /\ UNCHANGED <<exists, zstd, w_state, cfgvars, w_file, lock, w_thread, w_chunk, rvars,
                   accepted, closed_at, closes, flush_failed, lvars>>

\* time passes: d seconds at once
Sleep(d) ==
    /\ now < MaxTime
    /\ now' = now + d
    /\ UNCHANGED <<fsvars, wvars, rvars, hvars, lvars>>

(***************************************************************************)
(* SpecWrite: threads write records through one ClogWriter and close it.   *)
(***************************************************************************)
SmallFlushSize == 12
SmallFlushRecords == 2
SmallFlushInterval == 1
\* the thresholds: none reached, or one of the three within reach
Thresholds ==
    {<<DEFAULT_FLUSH_SIZE, DEFAULT_FLUSH_RECORDS, DEFAULT_FLUSH_INTERVAL>>,
     <<SmallFlushSize, DEFAULT_FLUSH_RECORDS, DEFAULT_FLUSH_INTERVAL>>,
     <<DEFAULT_FLUSH_SIZE, SmallFlushRecords, DEFAULT_FLUSH_INTERVAL>>,
     <<DEFAULT_FLUSH_SIZE, DEFAULT_FLUSH_RECORDS, SmallFlushInterval>>}
Codes == {COMPRESSION_NONE, COMPRESSION_GZIP, COMPRESSION_ZSTANDARD}

\* "I"
Levels == {<<73>>}
\* "a", "a\nb"
Messages == {<<97>>, <<97, 10, 98>>}

InitWrite ==
    /\ zstd = TRUE
    /\ now = 0
    /\ \E code \in Codes, th \in Thresholds : WriterConstructed(code, th[1], th[2], th[3])
    /\ ReaderNew
    /\ HistoryNew
    /\ HandlersNew

\* the writer has released the file and no call is in progress
Released == w_file = "none" /\ \A t \in Threads : w_thread[t].pc = "idle"

NextWrite ==
    \/ \E t \in Threads, level \in Levels, message \in Messages :
           WriteRecordCall(t, level, message)
    \/ \E t \in Threads : WriteRecordAppend(t)
    \/ \E t \in Threads : FlushWriteHeader(t)
    \/ \E t \in Threads : FlushWritePayload(t)
    \/ \E t \in Threads : closes = 0 /\ CloseCall(t)
    \/ \E t \in Threads : CloseEnter(t)
    \/ Tick

SpecWrite == InitWrite /\ [][NextWrite]_vars

(***************************************************************************)
(* SpecRead: one thread writes records through a ClogWriter and closes it; *)
(* once the file is released, a ClogReader is opened on it and reads its   *)
(* records or takes its tail.                                              *)
(***************************************************************************)
NextRead ==
    \/ \E level \in Levels, message \in Messages :
           r_state = "new" /\ WriteRecordCall(1, level, message)
    \/ WriteRecordAppend(1)
    \/ FlushWriteHeader(1)
    \/ FlushWritePayload(1)
    \/ (closes = 0 /\ CloseCall(1))
    \/ CloseEnter(1)
    \/ (r_state = "new" /\ Tick)
    \/ (Released /\ ReaderInit)
    \/ (r_calls = <<>> /\ ReadRecordsCall(FALSE))
    \/ ReadChunkHeader
    \/ ReadChunkPayload
    \/ \E n \in 0..MaxTail : r_calls = <<>> /\ TailCall(n)
    \/ TailScan
    \/ TailReadChunk
    \/ TailReturn

SpecRead == InitWrite /\ [][NextRead]_vars

(***************************************************************************)
(* SpecFail: one thread writes records through a ClogWriter and closes it, *)
(* while file writes may fail and the zstandard library may be missing.    *)
(***************************************************************************)
InitFail ==
    /\ zstd \in BOOLEAN
    /\ now = 0
    /\ \E code \in Codes, th \in Thresholds : WriterConstructed(code, th[1], th[2], th[3])
    /\ ReaderNew
    /\ HistoryNew
    /\ HandlersNew

NextFail ==
    \/ \E level \in Levels, message \in Messages : WriteRecordCall(1, level, message)
    \/ WriteRecordAppend(1)
    \/ FlushWriteHeader(1)
    \/ FlushWritePayload(1)
    \/ \E k \in 0..12, close_ok \in BOOLEAN : FlushWriteHeaderFails(1, k, close_ok)
    \/ \E k \in 0..Len(w_chunk.payload), close_ok \in BOOLEAN :
           FlushWritePayloadFails(1, k, close_ok)
    \/ (closes = 0 /\ CloseCall(1))
    \/ CloseEnter(1)
    \/ Tick

SpecFail == InitFail /\ [][NextFail]_vars

(***************************************************************************)
(* SpecClose: threads write records through one ClogWriter and close it    *)
(* more than once, before, between and after the writes.                   *)
(***************************************************************************)
MaxCloses == 2

NextClose ==
    \/ \E t \in Threads, level \in Levels, message \in Messages :
           WriteRecordCall(t, level, message)
    \/ \E t \in Threads : WriteRecordAppend(t)
    \/ \E t \in Threads : FlushWriteHeader(t)
    \/ \E t \in Threads : FlushWritePayload(t)
    \/ \E t \in Threads : closes < MaxCloses /\ CloseCall(t)
    \/ \E t \in Threads : CloseEnter(t)

SpecClose == InitWrite /\ [][NextClose]_vars

(***************************************************************************)
(* SpecText: one thread writes records whose level and message hold the    *)
(* format's own delimiters and characters of more than one byte, and       *)
(* closes the writer.                                                      *)
(***************************************************************************)
\* "I", "I\n", "I\tW"
TextLevels == {<<73>>, <<73, 10>>, <<73, 9, 87>>}
\* "a", "a\nb", "a\tb", "\u00e9", ""
TextMessages == {<<97>>, <<97, 10, 98>>, <<97, 9, 98>>, <<233>>, <<>>}

InitText ==
    /\ zstd = TRUE
    /\ now = 0
    /\ \E code \in Codes, frecords \in 1..SmallFlushRecords :
           WriterConstructed(code, DEFAULT_FLUSH_SIZE, frecords, DEFAULT_FLUSH_INTERVAL)
    /\ ReaderNew
    /\ HistoryNew
    /\ HandlersNew

NextText ==
    \/ \E level \in TextLevels, message \in TextMessages : WriteRecordCall(1, level, message)
    \/ WriteRecordAppend(1)
    \/ FlushWriteHeader(1)
    \/ FlushWritePayload(1)
    \/ (closes = 0 /\ CloseCall(1))
    \/ CloseEnter(1)

SpecText == InitText /\ [][NextText]_vars

(***************************************************************************)
(* SpecOpen: a file is on the disk, whole or cut, well-formed or not, or   *)
(* no file at all; a ClogWriter is opened on it in append mode and a       *)
(* ClogReader is opened on it, in either order.                            *)
(***************************************************************************)
\* the bytes a header may lose at its end
MaxCut == 1
\* "CLOF"
OtherMagic == <<67, 76, 79, 70>>
\* a compression code the format does not define
UnknownCode == <<3>>

\* the headers on the disk: each field right or wrong, whole or cut short
OpenFiles ==
    {<<>>} \cup
    {SubSeq(PackHeader(magic, version, code), 1, 16 - cut) :
        magic \in {MAGIC_BYTES, OtherMagic},
        version \in {FORMAT_VERSION, FORMAT_VERSION + 1},
        code \in Codes \cup {UnknownCode},
        cut \in 0..MaxCut}

\* no writer constructed yet
WriterNew ==
    /\ w_state = "new"
    /\ mode = ""
    /\ compression_code = <<>>
    /\ buffer_flush_size = 0
    /\ buffer_flush_records = 0
    /\ flush_interval = 0
    /\ w_file = "none"
    /\ buffer = <<>>
    /\ buffer_current_size = 0
    /\ buffer_current_records = 0
    /\ last_flush_time = 0
    /\ lock = 0
    /\ w_thread = [t \in Threads |-> IdleThread]
    /\ w_chunk = NoChunk

InitOpen ==
    /\ zstd \in BOOLEAN
    /\ now = 0
    /\ \/ exists = FALSE /\ disk = <<>>
       \/ exists = TRUE /\ disk \in OpenFiles
    /\ WriterNew
    /\ ReaderNew
    /\ HistoryNew
    /\ HandlersNew

NextOpen ==
    \/ \E code \in Codes :
           WriterInit("a", code, DEFAULT_FLUSH_SIZE, DEFAULT_FLUSH_RECORDS,
                      DEFAULT_FLUSH_INTERVAL)
    \/ ReaderInit

SpecOpen == InitOpen /\ [][NextOpen]_vars

(***************************************************************************)
(* SpecLive: one thread writes records through a ClogWriter, a chunk every *)
(* record or every few, while a ClogReader opened on the same file reads   *)
(* its records, follows it, or takes its tail and then follows it. Each    *)
(* file write of the writer and each file read of the reader is a step.    *)
(***************************************************************************)
InitLive ==
    /\ zstd = TRUE
    /\ now = 0
    /\ \E code \in Codes, frecords \in 1..SmallFlushRecords :
           WriterConstructed(code, DEFAULT_FLUSH_SIZE, frecords, DEFAULT_FLUSH_INTERVAL)
    /\ ReaderNew
    /\ HistoryNew
    /\ HandlersNew

NextLive ==
    \* the n-th record's message is the n-th letter: "a", "b", ...
    \/ \E level \in Levels : WriteRecordCall(1, level, <<97 + Len(accepted)>>)
    \/ WriteRecordAppend(1)
    \/ FlushWriteHeader(1)
    \/ FlushWritePayload(1)
    \/ (closes = 0 /\ CloseCall(1))
    \/ CloseEnter(1)
    \/ ReaderInit
    \/ (r_calls = <<>> /\ ReadRecordsCall(FALSE))
    \/ (r_calls \in {<<>>, <<"tail">>} /\ ReadRecordsCall(TRUE))
    \/ ReadChunkHeader
    \/ ReadChunkWake
    \/ ReadChunkPayload
    \/ \E n \in 0..MaxTail : r_calls = <<>> /\ TailCall(n)
    \/ TailScan
    \/ TailReadChunk
    \/ TailReturn

SpecLive == InitLive /\ [][NextLive]_vars

(***************************************************************************)
(* SpecAsync: a logger logs through an AsyncClogHandler on a               *)
(* ClogFileHandler, stop() is called, and a reader opened after stop()     *)
(* returned reads the file.                                                *)
(***************************************************************************)
InitAsync ==
    /\ zstd = TRUE
    /\ now = 0
    /\ exists = FALSE
    /\ disk = <<>>
    /\ WriterNew
    /\ ReaderNew
    /\ HistoryNew
    /\ HandlersNew

NextAsync ==
    \/ \E code \in Codes : HandlerInit("a", code)
    \/ AsyncInit
    \/ \E level \in Levels, message \in Messages : stops = 0 /\ AsyncEmit(level, message)
    \/ ListenerGet
    \/ WriteRecordAppend(ListenerThread)
    \/ FlushWriteHeader(ListenerThread)
    \/ FlushWritePayload(ListenerThread)
    \/ ListenerHandled
    \/ AsyncStop
    \/ AsyncStopReturn
    \/ Sleep(DEFAULT_FLUSH_INTERVAL)
    \/ (stops > 0 /\ ReaderInit)
    \/ ReadRecordsCall(FALSE)
    \/ ReadChunkHeader
    \/ ReadChunkPayload

SpecAsync == InitAsync /\ [][NextAsync]_vars

(***************************************************************************)
(* SpecHandler: on a file an earlier handler wrote and closed, a reader    *)
(* follows to the end of the file; then a ClogFileHandler is constructed   *)
(* on the path, a logger logs through it, and it is closed.                *)
(***************************************************************************)
\* "o", "old"
OldMessages == {<<111>>, <<111, 108, 100>>}
\* the file an earlier ClogFileHandler left: the header and one gzip chunk
ExistingFile(message) ==
    LET records_data == RecordBytes(Timestamp(0), <<73>>, message)
        compressed_data == GzipCompress(records_data)
    IN WriteHeader(COMPRESSION_GZIP)
       \o PackChunkHeader(Len(compressed_data), Len(records_data), 1)
       \o compressed_data

InitHandler ==
    /\ zstd = TRUE
    /\ now = 0
    /\ exists = TRUE
    /\ \E message \in OldMessages : disk = ExistingFile(message)
    /\ WriterNew
    /\ ReaderNew
    /\ HistoryNew
    /\ HandlersNew

\* the follower has read all there is and polls at the end of the file
FollowerAtEnd == r_follow /\ r_pc \in {"sleep", "header"} /\ r_pos = Len(disk)

NextHandler ==
    \/ ReaderInit
    \/ ReadRecordsCall(TRUE)
    \/ ReadChunkHeader
    \/ ReadChunkWake
    \/ ReadChunkPayload
    \/ \E code \in Codes : FollowerAtEnd /\ HandlerInit("a", code)
    \/ \E level \in Levels, message \in Messages : HandlerLog(1, level, message)
    \/ WriteRecordAppend(1)
    \/ FlushWriteHeader(1)
    \/ FlushWritePayload(1)
    \/ HandlerClose(1)
    \/ CloseEnter(1)
    \/ HandlerCloseReturn(1)
    \/ Sleep(DEFAULT_FLUSH_INTERVAL)

SpecHandler == InitHandler /\ [][NextHandler]_vars

(***************************************************************************)
(* ClogFileHandlers of each mode and compression code, on a path that      *)
(* names a file and on one that names none.                                *)
(***************************************************************************)
\* the mode argument of ClogFileHandler: its default 'a', and 'w'
HandlerModes == {"a", "w"}

InitHandlerConfig ==
    /\ zstd = TRUE
    /\ now = 0
    /\ \/ exists = FALSE /\ disk = <<>>
       \/ exists = TRUE /\ \E message \in OldMessages : disk = ExistingFile(message)
    /\ WriterNew
    /\ ReaderNew
    /\ HistoryNew
    /\ HandlersNew

NextHandlerConfig ==
    \/ \E m \in HandlerModes, code \in Codes : HandlerInit(m, code)
    \/ \E level \in Levels, message \in Messages : HandlerLog(1, level, message)
    \/ WriteRecordAppend(1)
    \/ FlushWriteHeader(1)
    \/ FlushWritePayload(1)
    \/ HandlerClose(1)
    \/ CloseEnter(1)
    \/ HandlerCloseReturn(1)
    \/ Sleep(DEFAULT_FLUSH_INTERVAL)

SpecHandlerConfig == InitHandlerConfig /\ [][NextHandlerConfig]_vars

(***************************************************************************)
(* SpecChunks: a reader, in follow mode or not, on a file that ends        *)
(* anywhere: after the header, inside a chunk header, inside a chunk's     *)
(* data, after a chunk.                                                    *)
(***************************************************************************)
\* the bytes _flush_chunk writes for a buffer of `count` records
ChunkBytes(code, records_data, count) ==
    LET compressed_data == CompressChunk(code, records_data, TRUE).data
    IN PackChunkHeader(Len(compressed_data), Len(records_data), count) \o compressed_data
\* two chunks, of one and of two records
TwoChunks(code) ==
    ChunkBytes(code, RecordBytes(Timestamp(0), <<73>>, <<97>>), 1)
    \o ChunkBytes(code, RecordBytes(Timestamp(0), <<73>>, <<97, 10, 98>>)
                        \o RecordBytes(Timestamp(1), <<73>>, <<97>>), 2)
\* the header and the first n bytes of the chunks
CutFiles ==
    UNION {{WriteHeader(code) \o SubSeq(TwoChunks(code), 1, n) : n \in 0..Len(TwoChunks(code))} :
               code \in Codes}

InitChunks ==
    /\ zstd = TRUE
    /\ now = 0
    /\ exists = TRUE
    /\ disk \in CutFiles
    /\ WriterNew
    /\ ReaderNew
    /\ HistoryNew
    /\ HandlersNew

NextChunks ==
    \/ ReaderInit
    \/ \E follow \in BOOLEAN : ReadRecordsCall(follow)
    \/ ReadChunkHeader
    \/ ReadChunkWake
    \/ ReadChunkPayload

SpecChunks == InitChunks /\ [][NextChunks]_vars

(***************************************************************************)
(* SpecTail: tail(n) on a closed file of up to MaxChunks chunks of one or  *)
(* two records each.                                                       *)
(***************************************************************************)
MaxChunks == 3
\* the records of chunk i: "b0", "b1" in chunk 1, "c0", "c1" in chunk 2, ...
RECURSIVE ChunkRecords(_, _)
ChunkRecords(i, count) ==
    IF count = 0 THEN <<>>
    ELSE ChunkRecords(i, count - 1)
         \o RecordBytes(Timestamp(0), <<73>>, <<97 + i, 47 + count>>)
\* the chunks of a file whose chunks hold counts[1], counts[2], ... records
RECURSIVE ChunksOf(_, _, _)
ChunksOf(code, counts, i) ==
    IF i > Len(counts) THEN <<>>
    ELSE ChunkBytes(code, ChunkRecords(i, counts[i]), counts[i]) \o ChunksOf(code, counts, i + 1)
ChunkCounts == UNION {[1..k -> {1, 2}] : k \in 0..MaxChunks}
TailFiles == {WriteHeader(code) \o ChunksOf(code, counts, 1) : code \in Codes, counts \in ChunkCounts}

InitTail ==
    /\ zstd = TRUE
    /\ now = 0
    /\ exists = TRUE
    /\ disk \in TailFiles
    /\ WriterNew
    /\ ReaderNew
    /\ HistoryNew
    /\ HandlersNew

NextTail ==
    \/ ReaderInit
    \/ \E n \in 0..(MaxTail + MaxChunks) : r_calls = <<>> /\ TailCall(n)
    \/ TailScan
    \/ TailReadChunk
    \/ TailReturn

SpecTail == InitTail /\ [][NextTail]_vars

(***************************************************************************)
(* SpecAppend: a ClogWriter is opened in append mode on a path that names  *)
(* no file or a valid file of some codec, writes records and is closed;    *)
(* then a reader reads the file.                                           *)
(***************************************************************************)
AppendFiles ==
    {WriteHeader(code) \o ChunksOf(code, counts, 1) :
         code \in Codes, counts \in {<<>>, <<1>>, <<2, 1>>}}

InitAppend ==
    /\ zstd = TRUE
    /\ now = 0
    /\ \/ exists = FALSE /\ disk = <<>>
       \/ exists = TRUE /\ disk \in AppendFiles
    /\ WriterNew
    /\ ReaderNew
    /\ HistoryNew
    /\ HandlersNew

NextAppend ==
    \/ \E code \in Codes, frecords \in 1..SmallFlushRecords :
           WriterInit("a", code, DEFAULT_FLUSH_SIZE, frecords, DEFAULT_FLUSH_INTERVAL)
    \/ \E level \in Levels, message \in Messages : WriteRecordCall(1, level, message)
    \/ WriteRecordAppend(1)
    \/ FlushWriteHeader(1)
    \/ FlushWritePayload(1)
    \/ (closes = 0 /\ CloseCall(1))
    \/ CloseEnter(1)
    \/ (closed_at >= 0 /\ Released /\ ReaderInit)
    \/ ReadRecordsCall(FALSE)
    \/ ReadChunkHeader
    \/ ReadChunkPayload

SpecAppend == InitAppend /\ [][NextAppend]_vars

(***************************************************************************)
(* SpecFragments: read_records, following or not, on files whose first     *)
(* chunk holds up to MaxFragments fragments of each kind (a record, a      *)
(* record with a tab in its message, text with no or one tab, bytes that   *)
(* are not UTF-8, nothing), followed or not by a chunk of one record.      *)
(***************************************************************************)
MaxFragments == 3
GoodFragment == <<48, FIELD_DELIMITER, 73, FIELD_DELIMITER, 97>>
TabbedFragment == <<48, FIELD_DELIMITER, 73, FIELD_DELIMITER, 97, FIELD_DELIMITER, 98>>
NoTabFragment == <<120>>
OneTabFragment == <<48, FIELD_DELIMITER, 73>>
InvalidFragment == <<48, FIELD_DELIMITER, 73, FIELD_DELIMITER, 255>>
FragmentKinds ==
    {GoodFragment, TabbedFragment, NoTabFragment, OneTabFragment, InvalidFragment, <<>>}

RECURSIVE JoinFragments(_)
JoinFragments(frags) ==
    IF frags = <<>> THEN <<>>
    ELSE frags[1] \o <<RECORD_DELIMITER>> \o JoinFragments(Tail(frags))

FragmentFiles ==
    UNION {{WriteHeader(code) \o ChunkBytes(code, JoinFragments(frags), Len(frags)) \o last :
                frags \in UNION {[1..k -> FragmentKinds] : k \in 1..MaxFragments},
                last \in {<<>>, ChunkBytes(code, JoinFragments(<<GoodFragment>>), 1)}} :
           code \in Codes}

InitFragments ==
    /\ zstd = TRUE
    /\ now = 0
    /\ exists = TRUE
    /\ disk \in FragmentFiles
    /\ WriterNew
    /\ ReaderNew
    /\ HistoryNew
    /\ HandlersNew

NextFragments ==
    \/ ReaderInit
    \/ (\E follow \in BOOLEAN : r_calls = <<>> /\ ReadRecordsCall(follow))
    \/ ReadChunkHeader
    \/ ReadChunkWake
    \/ ReadChunkPayload

SpecFragments == InitFragments /\ [][NextFragments]_vars

(***************************************************************************)
(* SpecReaderLife: a ClogReader is constructed on a path that names no     *)
(* file, a header right or wrong, or a valid file; up to MaxCalls calls of *)
(* read_records, tail and close() are made on it in any order.             *)
(***************************************************************************)
MaxCalls == 4

InitReaderLife ==
    /\ zstd = TRUE
    /\ now = 0
    /\ \/ exists = FALSE /\ disk = <<>>
       \/ exists = TRUE /\ disk \in AppendFiles \cup OpenFiles
    /\ WriterNew
    /\ ReaderNew
    /\ HistoryNew
    /\ HandlersNew

NextReaderLife ==
    \/ ReaderInit
    \/ (Len(r_calls) < MaxCalls /\ ReadRecordsCall(FALSE))
    \/ ReadChunkHeader
    \/ ReadChunkPayload
    \/ (\E n \in 1..MaxTail : Len(r_calls) < MaxCalls /\ TailCall(n))
    \/ TailScan
    \/ TailReadChunk
    \/ TailReturn
    \/ ReadReturn
    \/ (Len(r_calls) < MaxCalls /\ ReaderClose)

SpecReaderLife == InitReaderLife /\ [][NextReaderLife]_vars

(***************************************************************************)
(* SpecConfig: a ClogWriter is constructed in either mode, with a code of  *)
(* the format or one it does not define, on a path that names no file or a *)
(* header right or wrong; one thread writes records through it and closes  *)
(* it.                                                                     *)
(***************************************************************************)
NextConfig ==
    \/ \E m \in {"w", "a"}, code \in Codes \cup {UnknownCode} :
           WriterInit(m, code, DEFAULT_FLUSH_SIZE, DEFAULT_FLUSH_RECORDS,
                      DEFAULT_FLUSH_INTERVAL)
    \/ \E level \in Levels, message \in Messages : WriteRecordCall(1, level, message)
    \/ WriteRecordAppend(1)
    \/ FlushWriteHeader(1)
    \/ FlushWritePayload(1)
    \/ (closes = 0 /\ CloseCall(1))
    \/ CloseEnter(1)

SpecConfig == InitOpen /\ [][NextConfig]_vars

(***************************************************************************)
(* SpecTime: threads write records through a ClogWriter whose only         *)
(* threshold within reach is flush_interval, and close it, while time      *)
(* passes, up to more than the interval at once.                           *)
(***************************************************************************)
InitTime ==
    /\ zstd = TRUE
    /\ now = 0
    /\ \E code \in Codes :
           WriterConstructed(code, DEFAULT_FLUSH_SIZE, DEFAULT_FLUSH_RECORDS, SmallFlushInterval)
    /\ ReaderNew
    /\ HistoryNew
    /\ HandlersNew

NextTime ==
    \/ \E t \in Threads, level \in Levels, message \in Messages :
           WriteRecordCall(t, level, message)
    \/ \E t \in Threads : WriteRecordAppend(t)
    \/ \E t \in Threads : FlushWriteHeader(t)
    \/ \E t \in Threads : FlushWritePayload(t)
    \/ \E t \in Threads : closes = 0 /\ CloseCall(t)
    \/ \E t \in Threads : CloseEnter(t)
    \/ \E d \in 1..(SmallFlushInterval + 1) : Sleep(d)

SpecTime == InitTime /\ [][NextTime]_vars

(***************************************************************************)
(* SpecCounters: threads write records through one ClogWriter and close    *)
(* it, more than once, while file writes may fail at any flush and the     *)
(* zstandard library may be missing.                                       *)
(***************************************************************************)
InitCounters ==
    /\ zstd \in BOOLEAN
    /\ now = 0
    /\ \E frecords \in {SmallFlushRecords, DEFAULT_FLUSH_RECORDS} :
           WriterConstructed(COMPRESSION_ZSTANDARD, DEFAULT_FLUSH_SIZE, frecords,
                             DEFAULT_FLUSH_INTERVAL)
    /\ ReaderNew
    /\ HistoryNew
    /\ HandlersNew

NextCounters ==
    \/ \E t \in Threads, level \in Levels : WriteRecordCall(t, level, <<97 + Len(accepted)>>)
    \/ \E t \in Threads : WriteRecordAppend(t)
    \/ \E t \in Threads : FlushWriteHeader(t)
    \/ \E t \in Threads : FlushWritePayload(t)
    \/ \E t \in Threads, k \in 0..12, close_ok \in BOOLEAN : FlushWriteHeaderFails(t, k, close_ok)
    \/ \E t \in Threads, k \in 0..Len(w_chunk.payload), close_ok \in BOOLEAN :
           FlushWritePayloadFails(t, k, close_ok)
    \/ \E t \in Threads : closes < MaxCloses /\ CloseCall(t)
    \/ \E t \in Threads : CloseEnter(t)

SpecCounters == InitCounters /\ [][NextCounters]_vars

(***************************************************************************)
(* SpecRetry: threads write records through one ClogWriter, a chunk every  *)
(* record or every few, and close it; the write of a chunk header may fail *)
(* after none, one or all of its bytes, and later flushes succeed.         *)
(***************************************************************************)
InitRetry ==
    /\ zstd = TRUE
    /\ now = 0
    /\ \E code \in Codes, frecords \in 1..SmallFlushRecords :
           WriterConstructed(code, DEFAULT_FLUSH_SIZE, frecords, DEFAULT_FLUSH_INTERVAL)
    /\ ReaderNew
    /\ HistoryNew
    /\ HandlersNew

NextRetry ==
    \* no two messages are the same: a letter for the records accepted before the
    \* call, a digit for the calling thread
    \/ \E t \in Threads, level \in Levels :
           WriteRecordCall(t, level, <<97 + Len(accepted), 48 + t>>)
    \/ \E t \in Threads : WriteRecordAppend(t)
    \/ \E t \in Threads : FlushWriteHeader(t)
    \/ \E t \in Threads : FlushWritePayload(t)
    \/ \E t \in Threads, k \in 0..12 : FlushWriteHeaderFails(t, k, TRUE)
    \/ \E t \in Threads : closes = 0 /\ CloseCall(t)
    \/ \E t \in Threads : CloseEnter(t)

SpecRetry == InitRetry /\ [][NextRetry]_vars

(***************************************************************************)
(* SpecAgree: a reader reads all the records of a file and then takes its  *)
(* tail. The file's last chunk holds up to MaxFragments fragments of each  *)
(* kind, its header counting them all, after no chunk or a chunk of one    *)
(* record.                                                                 *)
(***************************************************************************)
AgreeFiles ==
    UNION {{WriteHeader(code) \o first \o ChunkBytes(code, JoinFragments(frags), Len(frags)) :
                first \in {<<>>, ChunkBytes(code, ChunkRecords(1, 1), 1)},
                frags \in UNION {[1..k -> FragmentKinds] : k \in 1..MaxFragments}} :
           code \in Codes}

InitAgree ==
    /\ zstd = TRUE
    /\ now = 0
    /\ exists = TRUE
    /\ disk \in AgreeFiles
    /\ WriterNew
    /\ ReaderNew
    /\ HistoryNew
    /\ HandlersNew

NextAgree ==
    \/ ReaderInit
    \/ (r_calls = <<>> /\ ReadRecordsCall(FALSE))
    \/ ReadChunkHeader
    \/ ReadChunkPayload
    \/ ReadReturn
    \/ (\E n \in 0..MaxTail : r_calls = <<"read">> /\ TailCall(n))
    \/ TailScan
    \/ TailReadChunk
    \/ TailReturn

SpecAgree == InitAgree /\ [][NextAgree]_vars

(***************************************************************************)
(* SpecCutTail: tail(n) on files of each codec cut at every length from    *)
(* the bare header to two whole chunks.                                    *)
(***************************************************************************)
NextCutTail ==
    \/ ReaderInit
    \/ (\E n \in 1..(MaxTail + 1) : r_calls = <<>> /\ TailCall(n))
    \/ TailScan
    \/ TailReadChunk
    \/ TailReturn

SpecCutTail == InitChunks /\ [][NextCutTail]_vars

(***************************************************************************)
(* The vocabulary of the properties: the file read as the format defines   *)
(* it, a 16-byte header and then whole chunks.                             *)
(***************************************************************************)
RECURSIVE ChunksFrom(_, _)
ChunksFrom(file, pos) ==
    IF pos + 12 > Len(file) THEN <<>>
    ELSE LET h == UnpackChunkHeader(SubSeq(file, pos + 1, pos + 12))
             end == pos + 12 + Min(h.compressed_size, Len(file))
         IN IF h.compressed_size > Len(file) - pos - 12 THEN <<>>
            ELSE <<[header |-> h, payload |-> SubSeq(file, pos + 13, end)]>>
                 \o ChunksFrom(file, end)
FileChunks(file) == ChunksFrom(file, 16)

\* the decompressed data of the file's chunks, one after the other
RECURSIVE ChunksData(_, _)
ChunksData(chunks, code) ==
    IF chunks = <<>> THEN <<>>
    ELSE DecompressChunk(code, chunks[1].payload, TRUE).data \o ChunksData(Tail(chunks), code)
FileData(file) == ChunksData(FileChunks(file), SubSeq(file, 7, 7))

\* the records of the file, as (timestamp, level, message)
FileRecords(file) == ParseRecords(FileData(file)).records

\* the records write_record accepted before close() released the file
AcceptedBeforeClose == SubSeq(accepted, 1, closed_at)
Triples(acc) == [i \in 1..Len(acc) |-> <<acc[i].timestamp, acc[i].level, acc[i].message>>]
Bytes(acc) == [i \in 1..Len(acc) |-> acc[i].bytes]
\* the same records as the file stores them, the message's newlines as sentinels
StoredTriples(acc) ==
    [i \in 1..Len(acc) |->
        <<acc[i].timestamp, acc[i].level, Replace(acc[i].message, RECORD_DELIMITER, SENTINEL)>>]

ReadDone == r_calls = <<"read">> /\ r_pc = "done"
TailDone == r_calls = <<"tail">> /\ r_pc = "idle"

(***************************************************************************)
(* C1: round trip. Every (level, message) written before close() is read   *)
(* back by read_records() after the file is reopened: one tuple per pair,   *)
(* in order, with the same level and the same message, newlines included.  *)
(***************************************************************************)
C1_RoundTrip ==
    ReadDone => /\ Len(r_out) = closed_at
                /\ \A i \in 1..closed_at :
                       /\ r_out[i][2] = accepted[i].level
                       /\ r_out[i][3] = accepted[i].message

(***************************************************************************)
(* C2: tail(n) returns the last n records of the file, oldest first, for   *)
(* every n from 0 to the number of records, however the records are split  *)
(* across chunks, and all the records for a larger n.  The records are the *)
(* ones written, in the form the file stores them.                         *)
(***************************************************************************)
C2_TailCorrect ==
    TailDone => /\ tail_result = LastN(StoredTriples(AcceptedBeforeClose), tail_n)
                /\ Len(tail_result) = Min(tail_n, closed_at)
                /\ r_exc = ""

C2_Witness ==
    /\ TailDone
    /\ Len(FileChunks(disk)) = 2
    /\ tail_n = 1
    /\ Len(tail_result) = 1

(***************************************************************************)
(* C6: concurrent write_record calls serialize under the lock. Once        *)
(* close() has released the file, the file's data is the records accepted  *)
(* before the close, each once and whole, in the order the calls took the  *)
(* lock.                                                                   *)
(***************************************************************************)
C6_Serialized ==
    w_file = "none" =>
        /\ FileData(disk) = Concat(Bytes(AcceptedBeforeClose))
        /\ FileRecords(disk) = StoredTriples(AcceptedBeforeClose)

\* both threads wrote, the second thread first
C6_Witness ==
    /\ w_file = "none"
    /\ closed_at = 2
    /\ accepted[1].thread = 2
    /\ accepted[2].thread = 1
    /\ Len(FileRecords(disk)) = 2

(***************************************************************************)
(* C7, as claimed: when the bytes of the records written before close()    *)
(* exceed buffer_flush_size, the file holds more than one chunk after      *)
(* close().                                                                *)
(***************************************************************************)
BytesBeforeClose == SumLen(Bytes(AcceptedBeforeClose))

UnderThresholds ==
    \A i \in 1..closed_at :
        /\ accepted[i].size < buffer_flush_size
        /\ accepted[i].records < buffer_flush_records
        /\ accepted[i].since < flush_interval

C8_SingleChunk ==
    (w_file = "none" /\ closed_at >= 1 /\ UnderThresholds)
        => /\ Len(FileChunks(disk)) = 1
           /\ FileChunks(disk)[1].header.count = closed_at
           /\ FileData(disk) = Concat(Bytes(AcceptedBeforeClose))
           /\ FileRecords(disk) = StoredTriples(AcceptedBeforeClose)

\* two records under a time threshold that was in reach
C8_Witness ==
    /\ w_file = "none"
    /\ closed_at = 2
    /\ UnderThresholds
    /\ flush_interval = SmallFlushInterval
    /\ Len(FileChunks(disk)) = 1

(***************************************************************************)
(* C5: opening a ClogWriter in append mode on an existing valid file whose *)
(* stored compression code differs from the requested one fails with a     *)
(* configuration error, and the file's bytes are unchanged: nothing is     *)
(* written and no handle stays open.                                       *)
(***************************************************************************)
\* the file opens with a well-formed header of a known compression code
ValidFile(file) ==
    /\ Len(file) >= 16
    /\ SubSeq(file, 1, 4) = MAGIC_BYTES
    /\ SubSeq(file, 5, 6) = PackH(FORMAT_VERSION)
    /\ \E code \in Codes : SubSeq(file, 7, 8) = Pack2s(code)

\* this step is ClogWriter(path, 'a', code) on an existing valid file that
\* stores another code
AppendMismatchStep ==
    /\ w_state = "new"
    /\ w_state' # "new"
    /\ mode' = "a"
    /\ exists
    /\ ValidFile(disk)
    /\ SubSeq(disk, 7, 8) # Pack2s(compression_code')

ReaderOpened == r_state # "new" /\ r_exc # "ClogReadError"

Malformed(file) ==
    \/ Len(file) < 16
    \/ SubSeq(file, 1, 4) # MAGIC_BYTES
    \/ SubSeq(file, 5, 6) # PackH(FORMAT_VERSION)

Unsupported(file) ==
    \/ \A code \in Codes : file[7] # code[1]
    \/ (file[7] = COMPRESSION_ZSTANDARD[1] /\ ~zstd)

C9_HeaderValidation ==
    ReaderOpened =>
        /\ Malformed(disk) => r_exc = "InvalidClogFileError"
        /\ (~Malformed(disk) /\ Unsupported(disk)) => r_exc = "UnsupportedCompressionError"
        /\ (~Malformed(disk) /\ ~Unsupported(disk)) =>
               (r_exc = "" /\ r_state = "ready" /\ r_file = "open")
        /\ r_exc # "" => (r_state = "failed" /\ r_file = "closed")

\* a reader refused for its format version alone
C9_Witness ==
    /\ ReaderOpened
    /\ Len(disk) = 16
    /\ SubSeq(disk, 1, 4) = MAGIC_BYTES
    /\ SubSeq(disk, 5, 6) # PackH(FORMAT_VERSION)
    /\ r_exc = "InvalidClogFileError"
    /\ r_file = "closed"

(***************************************************************************)
(* C3: tail-then-follow continuity. After tail(n) the position is at the   *)
(* end of the file, and read_records(follow=True) chained on the same      *)
(* reader yields every record tail did not cover and none it returned: no  *)
(* record is missed or duplicated, however the tail call interleaves with  *)
(* the writer's chunk appends. Stated where the follower has caught up     *)
(* with a file of whole chunks: what tail returned and what the follower   *)
(* yielded since are together the last records of the file, the last n at  *)
(* least.                                                                  *)
(***************************************************************************)
IsSuffix(s, t) == Len(s) <= Len(t) /\ s = SubSeq(t, Len(t) - Len(s) + 1, Len(t))

\* the follower chained on tail has read all there is, and the file ends with a chunk
FollowerCaughtUp ==
    /\ r_calls = <<"tail", "follow">>
    /\ r_pc = "sleep"
    /\ r_exc = ""
    /\ r_pos = Len(disk)
    /\ w_thread[1].pc # "payload"

C3_TailFollowContinuity ==
    FollowerCaughtUp =>
        /\ IsSuffix(tail_result \o r_out, FileRecords(disk))
        /\ Len(tail_result \o r_out) >= Min(tail_n, Len(FileRecords(disk)))

(***************************************************************************)
(* C4: follow semantics. A reader iterating read_records(follow=True) on a *)
(* file of K complete chunks yields exactly the records of those chunks    *)
(* and then polls without terminating; when the writer appends one more    *)
(* chunk, the same iteration goes on to yield that chunk's records, with   *)
(* no restart and no repeat. Stated on every state of the iteration: it    *)
(* has neither returned nor raised, what it has yielded are the first      *)
(* records of the file, and where it polls it has yielded the records of   *)
(* every chunk before its position.                                        *)
(***************************************************************************)
C4_FollowSemantics ==
    r_calls = <<"follow">> =>
        /\ r_pc \notin {"done", "raised"}
        /\ r_out = SubSeq(FileRecords(disk), 1, Len(r_out))
        /\ r_pc = "sleep" => r_out = FileRecords(SubSeq(disk, 1, r_pos))

(***************************************************************************)
(* C10: readers are safe alongside one appending writer. However the       *)
(* writer's flush steps (chunk header write, payload write) interleave     *)
(* with the reader's read_chunks steps, the reader raises no error and     *)
(* yields only chunks the writer wrote; a chunk absent or not yet complete *)
(* at the end of the file ends the stream when not following and is waited *)
(* for when following.                                                     *)
(***************************************************************************)
C10_ReaderSafe ==
    r_calls \in {<<"read">>, <<"follow">>} =>
        /\ r_exc = ""
        /\ Len(r_chunks) <= Len(written)
        /\ \A i \in 1..Len(r_chunks) :
              r_chunks[i].data = written[i].data /\ r_chunks[i].count = written[i].count
        /\ r_pc = "done" => ~r_follow

(***************************************************************************)
(* C11: close() flushes before it releases. When close() returns, no write *)
(* having failed, the buffer is empty and its counters are zero, the file  *)
(* handle is released (self.file is None), and every record write_record   *)
(* accepted since the open is in a chunk of the file.                      *)
(***************************************************************************)
\* this step is the one in which close() releases the file
CloseReleases == closed_at = -1 /\ closed_at' # -1

C11_CloseFlushes ==
    [][CloseReleases =>
          /\ buffer' = <<>>
          /\ buffer_current_size' = 0
          /\ buffer_current_records' = 0
          /\ w_file' = "none"
          /\ closed_at' = Len(accepted')
          /\ FileData(disk') = Concat(Bytes(accepted'))
          /\ \A i \in 1..Len(accepted') :
                \E j \in 1..Len(FileChunks(disk')) :
                    \E k \in 0..Len(written'[j].data) - Len(accepted'[i].bytes) :
                        /\ FileChunks(disk')[j].payload = written'[j].payload
                        /\ SubSeq(written'[j].data, k + 1, k + Len(accepted'[i].bytes))
                               = accepted'[i].bytes]_vars

\* close() wrote the last chunk itself, after a chunk a write_record call wrote
C11_Witness ==
    /\ w_file = "none"
    /\ buffer = <<>>
    /\ closed_at = 2
    /\ Len(written) = 2
    /\ written[1].by = "write"
    /\ written[2].by = "close"

(***************************************************************************)
(* C12: a failing final flush never blocks the release. When the flush     *)
(* inside close() fails, by a failing file write or by the codec, the      *)
(* failure is reported (printed, or raised to the caller) and the file     *)
(* handle is closed all the same: self.file is None, unless                *)
(* self.file.close() raised as well, when close() raises ClogWriteError    *)
(* and self.file is left naming the closed file.                           *)
(***************************************************************************)
\* in this step the flush of thread t's close() fails
CloseFlushFails(t) ==
    /\ w_thread[t].op = "close"
    /\ w_thread[t].pc \in {"lock", "header", "payload"}
    /\ w_thread'[t].pc = "idle"
    /\ w_file # "none"
    /\ buffer # <<>>
    /\ buffer' = buffer

C12_FlushFailureReleases ==
    [][\A t \in Threads : CloseFlushFails(t) =>
          /\ w_file' # "open"
          /\ w_thread'[t].warned # "" \/ w_thread'[t].exc # ""
          /\ w_file' = "none" \/ w_thread'[t].exc = "ClogWriteError"
          /\ lock' = 0]_vars

\* close() printed the flush's ClogWriteError and released the file
C12_Witness ==
    /\ w_thread[1].warned = "ClogWriteError"
    /\ w_thread[1].exc = ""
    /\ w_file = "none"
    /\ buffer # <<>>

(***************************************************************************)
(* C14: a flush failure is surfaced and not rolled back. When a file write *)
(* of a flush that write_record started fails, write_record raises         *)
(* ClogWriteError to its caller, and the buffer, its size counter, its     *)
(* record counter and last_flush_time are as they were before the flush:   *)
(* the record just appended stays buffered.                                *)
(***************************************************************************)
\* in this step a file write of the flush of thread t's write_record fails
WriteFlushFails(t) ==
    /\ w_thread[t].op = "write"
    /\ w_thread[t].pc \in {"header", "payload"}
    /\ w_thread'[t].pc = "idle"
    /\ w_file = "open"
    /\ written' = written

C14_FlushFailureSurfaced ==
    [][\A t \in Threads : WriteFlushFails(t) =>
          /\ w_thread'[t].exc = "ClogWriteError"
          /\ buffer' = buffer
          /\ buffer_current_size' = buffer_current_size
          /\ buffer_current_records' = buffer_current_records
          /\ last_flush_time' = last_flush_time
          /\ buffer' # <<>>
          /\ buffer'[Len(buffer')] = accepted[Len(accepted)].bytes
          /\ buffer_current_records' = Len(buffer')
          /\ buffer_current_size' = SumLen(buffer')]_vars

\* write_record raised, the writer still open, the buffer at its record threshold
C14_Witness ==
    /\ w_thread[1].exc = "ClogWriteError"
    /\ w_file = "open"
    /\ buffer_current_records >= buffer_flush_records
    /\ Len(buffer) = buffer_current_records

(***************************************************************************)
(* C13: close() is idempotent. A close() that finds the file released by   *)
(* an earlier close() writes no byte to the file, appends no chunk, raises *)
(* nothing and leaves the writer closed, whatever write_record calls came  *)
(* before the first close() (or after it).                                 *)
(***************************************************************************)
\* in this step thread t's close() runs after an earlier close() released the file
LaterClose(t) ==
    /\ w_thread[t].op = "close"
    /\ w_thread[t].pc = "lock"
    /\ w_thread'[t].pc # "lock"
    /\ closed_at # -1

C13_CloseIdempotent ==
    [][\A t \in Threads : LaterClose(t) =>
          /\ disk' = disk
          /\ written' = written
          /\ w_thread'[t].pc = "idle"
          /\ w_thread'[t].exc = ""
          /\ w_file' = "none"
          /\ closed_at' = closed_at
          /\ lock' = 0
          /\ bufvars' = bufvars]_vars

\* two close() calls have returned, a record written before the first
C13_Witness ==
    /\ closes = 2
    /\ \A t \in Threads : w_thread[t].pc = "idle"
    /\ closed_at >= 1
    /\ w_file = "none"

(***************************************************************************)
(* C15: the chunk invariant. For every chunk the writer appends, whatever  *)
(* level and message strings write_record was given, the chunk header's    *)
(* compressed_size is the length of the payload in the file, decompressing *)
(* the payload gives exactly uncompressed_size bytes, and parsing those    *)
(* bytes as the reader does gives exactly record_count records.            *)
(***************************************************************************)
ChunkInvariant(chunk, code) ==
    LET d == DecompressChunk(code, chunk.payload, TRUE)
    IN /\ chunk.header.compressed_size = Len(chunk.payload)
       /\ d.exc = ""
       /\ Len(d.data) = chunk.header.uncompressed_size
       /\ ParseRecords(d.data).exc = ""
       /\ Len(ParseRecords(d.data).records) = chunk.header.count

C15_ChunkInvariant ==
    \A i \in 1..Len(written) :
        /\ Len(FileChunks(disk)) >= i
        /\ FileChunks(disk)[i].payload = written[i].payload
        /\ FileChunks(disk)[i].header = UnpackChunkHeader(written[i].header)
        /\ ChunkInvariant(FileChunks(disk)[i], compression_code)

(***************************************************************************)
(* C16: async shutdown drains and flushes. After records were logged       *)
(* through an AsyncClogHandler on a ClogFileHandler and stop() returned, a *)
(* reader opened on the file reads exactly the logged records, one record  *)
(* with the logged message for each; and a stop() after the first changes  *)
(* nothing.                                                                *)
(***************************************************************************)
\* the logged records as the file stores them, the timestamp left out
StoredLogged ==
    [i \in 1..Len(logged) |->
        <<logged[i][1], Replace(logged[i][2], RECORD_DELIMITER, SENTINEL)>>]
LevelAndMessage(out) == [i \in 1..Len(out) |-> <<out[i][2], out[i][3]>>]
\* a stop() on a handler already stopped
LaterStop == a_pc = "idle" /\ listener = "none" /\ stops' = stops + 1

C16_AsyncShutdown ==
    [][/\ (stops' > 0 /\ ReadDone') => LevelAndMessage(r_out') = StoredLogged'
       /\ LaterStop => UNCHANGED <<fsvars, wvars, log_queue, listener, l_pc, a_pc, clog_writer>>
      ]_vars

(***************************************************************************)
(* C17: a ClogFileHandler constructed on the path of an existing file      *)
(* appends to it. The records in the file stay in it, at its start, in     *)
(* every step; and once the handler has logged a record and is closed, a   *)
(* follow-mode reader that stood at the old end of the file and has read   *)
(* all it can has yielded the logged records after the old ones.           *)
(***************************************************************************)
IsPrefix(s, t) == Len(s) <= Len(t) /\ s = SubSeq(t, 1, Len(s))
\* the follower has nothing more to read, or has raised
FollowerThrough ==
    \/ r_pc = "raised"
    \/ r_pc = "sleep" /\ FileRead(disk, r_pos, 12) = <<>>

C17_HandlerAppends ==
    [][/\ IsPrefix(FileRecords(disk), FileRecords(disk'))
       /\ (h_state' = "closed" /\ logged' # <<>> /\ FollowerThrough')
              => IsSuffix(StoredLogged', LevelAndMessage(r_out'))
      ]_vars

(***************************************************************************)
(* C18: flush triggers. A write_record call flushes exactly when, after    *)
(* appending its record, the buffered bytes are at least buffer_flush_size *)
(* or the buffered records at least buffer_flush_records or the time since *)
(* the last flush at least flush_interval. So whenever no write_record is  *)
(* between its append and its return and no flush has failed, the buffered *)
(* bytes and records are below their thresholds; and when a flushing call  *)
(* returns, the buffer is empty and last_flush_time is the time then.      *)
(***************************************************************************)
\* thread t appends its record in this step
Appends(t) ==
    /\ w_thread[t].pc = "lock"
    /\ w_thread[t].op = "write"
    /\ Len(accepted') = Len(accepted) + 1
    /\ accepted'[Len(accepted')].thread = t
\* the three triggers, on the buffer as the record appended last found it
Triggered(a) ==
    \/ a.size >= buffer_flush_size
    \/ a.records >= buffer_flush_records
    \/ a.since >= flush_interval
\* thread t's write_record returns from its flush in this step
FlushingCallReturns(t) ==
    /\ w_thread[t].op = "write"
    /\ w_thread[t].pc = "payload"
    /\ w_thread'[t].pc = "idle"
    /\ w_thread'[t].exc = ""
NoFlushInProgress == \A t \in Threads : w_thread[t].pc \notin {"header", "payload"}

C18_FlushTriggers ==
    [][/\ \A t \in Threads :
              Appends(t) =>
                  ((w_thread'[t].pc = "header" \/ w_thread'[t].exc # "")
                       <=> Triggered(accepted'[Len(accepted')]))
       /\ (NoFlushInProgress' /\ ~flush_failed')
              => /\ buffer_current_size' < buffer_flush_size
                 /\ buffer_current_records' < buffer_flush_records
                 /\ buffer_current_size' = SumLen(buffer')
                 /\ buffer_current_records' = Len(buffer')
       /\ \A t \in Threads :
              FlushingCallReturns(t) =>
                  /\ buffer' = <<>>
                  /\ buffer_current_size' = 0
                  /\ buffer_current_records' = 0
                  /\ last_flush_time' = now
                  /\ Len(written') = Len(written) + 1
      ]_vars

\* each of the three triggers alone has flushed a chunk, and a record is buffered
\* under the thresholds
C18_Witness ==
    /\ NoFlushInProgress
    /\ ~flush_failed
    /\ Len(written) = 1
    /\ written[1].by = "write"
    /\ Len(accepted) = 2
    /\ buffer_current_records = 1
    /\ \/ accepted[1].since >= flush_interval
       \/ accepted[1].size >= buffer_flush_size
       \/ accepted[1].records >= buffer_flush_records

(***************************************************************************)
(* C19: a flush of an empty buffer writes nothing, so that no chunk with   *)
(* record_count 0 is ever written; a flush that succeeds writes the chunk  *)
(* header, then the payload, then empties the buffer and sets both         *)
(* counters to 0, the thread holding the lock from before the header to    *)
(* after the reset, so that no record is appended in between and the       *)
(* buffer emptied is the buffer written.                                   *)
(***************************************************************************)
\* thread t's close() meets an empty buffer in this step
ClosesOnEmpty(t) ==
    /\ w_thread[t].pc = "lock"
    /\ w_thread[t].op = "close"
    /\ w_thread'[t].pc = "idle"
    /\ buffer = <<>>
InFlush(t) == w_thread[t].pc \in {"header", "payload"}
\* the chunk of the buffer as it is
BufferChunk == FlushPrepare(buffer, Len(buffer))

C19_FlushAtomic ==
    [][/\ \A i \in 1..Len(written') : written'[i].count >= 1
       /\ \A i \in 1..Len(FileChunks(disk')) : FileChunks(disk')[i].header.count >= 1
       /\ \A t \in Threads :
              /\ ClosesOnEmpty(t) => (disk' = disk /\ written' = written)
              /\ (w_thread[t].pc = "header" /\ w_thread'[t].pc = "payload")
                     => /\ lock = t /\ lock' = t
                        /\ disk' = disk \o BufferChunk.header
                        /\ UNCHANGED bufvars
              /\ (w_thread[t].pc = "payload" /\ w_thread'[t].pc = "idle")
                     => /\ lock = t /\ lock' = 0
                        /\ disk' = disk \o BufferChunk.payload
                        /\ buffer' = <<>>
                        /\ buffer_current_size' = 0
                        /\ buffer_current_records' = 0
              /\ InFlush(t)
                     => /\ accepted' = accepted
                        /\ buffer' = buffer \/ w_thread'[t].pc = "idle"
                        /\ \A u \in Threads \ {t} : ~InFlush(u) /\ w_thread'[u].pc # "header"
      ]_vars

\* close() met an empty buffer after a write_record flushed a chunk of two records,
\* one of each thread
C19_Witness ==
    /\ Released
    /\ closed_at = 2
    /\ buffer = <<>>
    /\ Len(written) = 1
    /\ written[1].by = "write"
    /\ written[1].count = 2
    /\ accepted[1].thread # accepted[2].thread

(***************************************************************************)
(* C20: read_chunks at the end of the data. A read of no byte where a      *)
(* chunk header would start ends the sequence when not following, and when *)
(* following is tried again after a sleep, the sequence never ending and   *)
(* never raising for it; a read of 1 to 11 bytes there raises the read     *)
(* error in both modes, and so does a read of fewer than compressed_size   *)
(* bytes of chunk data.                                                    *)
(***************************************************************************)
\* the bytes between the reader's position and the end of the file
BytesLeft == Len(disk) - r_pos

C20_EndOfData ==
    [][/\ (r_pc = "header" /\ BytesLeft = 0 /\ ~r_follow)
              => (r_pc' = "done" /\ r_exc' = "" /\ UNCHANGED <<r_pos, r_chunks, r_out>>)
       /\ (r_pc = "header" /\ BytesLeft = 0 /\ r_follow)
              => (r_pc' = "sleep" /\ r_exc' = "" /\ UNCHANGED <<r_pos, r_chunks, r_out>>)
       /\ r_pc = "sleep" => (r_pc' = "header" /\ r_exc' = "")
       /\ r_follow' => r_pc' # "done"
       /\ (r_pc = "header" /\ BytesLeft \in 1..11)
              => (r_pc' = "raised" /\ r_exc' = "ClogReadError" /\ UNCHANGED <<r_chunks, r_out>>)
       /\ (r_pc = "payload" /\ BytesLeft < r_header.compressed_size)
              => (r_pc' = "raised" /\ r_exc' = "ClogReadError" /\ UNCHANGED <<r_chunks, r_out>>)
       /\ r_pc' = "raised"
              => \/ r_pc = "header" /\ BytesLeft \in 1..11
                 \/ r_pc = "payload" /\ BytesLeft < r_header.compressed_size
      ]_vars

\* a follower has yielded the first chunk and raised on a second header cut short
C20_Witness ==
    /\ r_follow
    /\ r_pc = "raised"
    /\ r_exc = "ClogReadError"
    /\ Len(r_chunks) = 1
    /\ r_pos = Len(disk)
    /\ Len(disk) - (16 + 12 + r_header.compressed_size) \in 1..11

(***************************************************************************)
(* C21: tail decompresses only the trailing chunks it needs. For n >= 1    *)
(* the chunks tail(n) seeks to and decompresses are the shortest suffix of *)
(* the file's chunks whose record counts sum to n or more, every chunk     *)
(* when the file holds fewer than n records, each once and in file order,  *)
(* and no other chunk; on a file of three chunks of 2, 2 and 1 records,    *)
(* tail(1) decompresses the last chunk only and returns its one record.    *)
(***************************************************************************)
RECURSIVE SumCounts(_)
SumCounts(chunks) ==
    IF chunks = <<>> THEN 0 ELSE chunks[1].header.count + SumCounts(Tail(chunks))
Suffix(s, k) == SubSeq(s, Len(s) - k + 1, Len(s))
\* how many trailing chunks hold n records, or all the chunks
NeededChunks(chunks, n) ==
    LET enough == {k \in 0..Len(chunks) : SumCounts(Suffix(chunks, k)) >= n}
    IN IF enough = {} THEN Len(chunks)
       ELSE CHOOSE k \in enough : \A j \in enough : k <= j
\* where the data of the file's k-th chunk ends
RECURSIVE ChunkEnd(_, _)
ChunkEnd(chunks, k) ==
    IF k = 0 THEN 16 ELSE ChunkEnd(chunks, k - 1) + 12 + chunks[k].header.compressed_size
Counts(chunks) == [i \in 1..Len(chunks) |-> chunks[i].header.count]
ChunkTriples(chunk, code) == ParseRecords(DecompressChunk(code, chunk.payload, TRUE).data).records

C21_TailReadsSuffix ==
    [][tail_n >= 1 =>
        LET chunks == FileChunks(disk)
            needed == NeededChunks(chunks, tail_n)
            \* the file's chunk that the next read of the third loop is due to read
            k == Len(chunks) - Len(chunks_to_read) + 1
        IN /\ (r_pc = "scan" /\ r_pc' # "scan") => Len(chunks_to_read') = needed
           /\ r_pc = "read"
                 => /\ Len(chunks_to_read) <= needed
                    /\ chunks_to_read[1].data_offset = ChunkEnd(chunks, k - 1) + 12
                    /\ r_pos' = ChunkEnd(chunks, k)
                    /\ results' = results \o ChunkTriples(chunks[k], r_compression_code)
                    /\ Len(chunks_to_read') = Len(chunks_to_read) - 1
           /\ r_pc # "read" => results' = results
           /\ (r_pc = "seek_end" /\ Counts(chunks) = <<2, 2, 1>> /\ tail_n = 1)
                 => /\ results = ChunkTriples(chunks[3], r_compression_code)
                    /\ tail_result' = results
                    /\ Len(tail_result') = 1
      ]_vars

\* tail(1) has returned on a file of three chunks of 2, 2 and 1 records
C21_Witness ==
    /\ r_calls = <<"tail">>
    /\ r_pc = "idle"
    /\ tail_n = 1
    /\ Counts(FileChunks(disk)) = <<2, 2, 1>>
    /\ Len(tail_result) = 1

(***************************************************************************)
(* C22: append open leaves the existing content as it is. Opening a        *)
(* ClogWriter in append mode on a valid file of the same compression code  *)
(* changes no byte of it, the chunks written afterwards follow the old     *)
(* ones, and a reader of the closed file yields the old records and then   *)
(* the new ones; on a path that names no file, the open creates the file   *)
(* with a fresh 16-byte header.                                            *)
(***************************************************************************)
\* the bytes of the chunks this writer wrote
RECURSIVE WrittenBytes(_)
WrittenBytes(w) ==
    IF w = <<>> THEN <<>> ELSE w[1].header \o w[1].payload \o WrittenBytes(Tail(w))
\* the writer opens, in this step, a valid file of its own compression code
AppendOpens ==
    /\ w_state = "new" /\ w_state' = "ready"
    /\ exists
    /\ mode' = "a"

C22_AppendKeepsContent ==
    [][/\ AppendOpens => (disk' = disk /\ RStripZero(SubSeq(disk, 7, 8)) = RStripZero(compression_code'))
       /\ (w_state = "new" /\ w_state' # "new" /\ ~exists)
              => (exists' /\ w_state' = "ready" /\ disk' = WriteHeader(compression_code')
                  /\ Len(disk') = 16)
       /\ exists => IsPrefix(disk, disk')
       /\ w_state' = "ready"
              => \E old \in AppendFiles \cup {WriteHeader(compression_code')} :
                     disk' = old \o WrittenBytes(written') \o SubSeq(w_chunk'.header, 1,
                                 IF \E t \in Threads : w_thread'[t].pc = "payload" THEN 12 ELSE 0)
       /\ (ReadDone' /\ w_state' = "ready")
              => /\ r_exc' = ""
                 /\ \E old \in AppendFiles \cup {WriteHeader(compression_code')} :
                        /\ IsPrefix(old, disk')
                        /\ r_out' = FileRecords(old) \o StoredTriples(AcceptedBeforeClose')
      ]_vars

\* the reader has read two old chunks and then two chunks written after the append open
C22_Witness ==
    /\ ReadDone
    /\ mode = "a"
    /\ Len(written) = 2
    /\ Len(r_chunks) = 4
    /\ Len(r_out) = 5

(***************************************************************************)
(* C23: read_records is lenient per record. A fragment of a chunk that     *)
(* does not split into exactly three parts is skipped and the records      *)
(* after it are still yielded; the message of a record is everything after *)
(* the second field delimiter, further field delimiters included; a        *)
(* fragment that is not valid UTF-8 makes read_records raise a read error, *)
(* which ends the iteration: nothing after it is yielded.                  *)
(***************************************************************************)
\* the fragments of the data of chunks, each ended by a record delimiter
Fragments(data) ==
    LET parts == Split(data, RECORD_DELIMITER, -1)
    IN SubSeq(parts, 1, Len(parts) - 1)
FieldDelimiters(f) == {i \in 1..Len(f) : f[i] = FIELD_DELIMITER}
IsUtf8(f) == \A i \in 1..Len(f) : f[i] < 128
\* the three fields of a fragment holding two field delimiters or more
Fields(f) ==
    LET first == CHOOSE i \in FieldDelimiters(f) : \A j \in FieldDelimiters(f) : i <= j
        second == CHOOSE i \in FieldDelimiters(f) \ {first} :
                      \A j \in FieldDelimiters(f) \ {first} : i <= j
    IN <<SubSeq(f, 1, first - 1), SubSeq(f, first + 1, second - 1),
         SubSeq(f, second + 1, Len(f))>>
IsRecord(f) == Cardinality(FieldDelimiters(f)) >= 2
\* the records of the fragments that are records, in order
RecordsOf(frags) ==
    LET recs == SelectSeq(frags, IsRecord)
    IN [i \in 1..Len(recs) |-> Fields(recs[i])]
\* the number of fragments before the first that is not UTF-8
ValidPrefix(frags) ==
    IF \A i \in 1..Len(frags) : IsUtf8(frags[i]) THEN Len(frags)
    ELSE (CHOOSE i \in 1..Len(frags) :
              ~IsUtf8(frags[i]) /\ \A j \in 1..(i - 1) : IsUtf8(frags[j])) - 1

C23_LenientRecords ==
    LET frags == Fragments(FileData(disk))
        valid == ValidPrefix(frags)
    IN /\ (r_pc \in {"done", "sleep", "raised"} /\ r_calls # <<>>)
              => r_out = RecordsOf(SubSeq(frags, 1, valid))
       /\ r_pc = "raised" <=> (r_exc = "ClogReadError" /\ r_calls # <<>>)
       /\ r_pc = "raised" => valid < Len(frags)
       /\ r_pc \in {"done", "sleep"} => valid = Len(frags)
       /\ r_calls # <<>> => IsPrefix(r_out, RecordsOf(SubSeq(frags, 1, valid)))

\* a fragment with no tab skipped, a record with a tab in its message yielded, and
\* the read error at the fragment after them, a whole chunk left unread
C23_Witness ==
    /\ r_pc = "raised"
    /\ Len(FileChunks(disk)) = 2
    /\ Fragments(FileData(disk))
           = <<NoTabFragment, TabbedFragment, InvalidFragment, GoodFragment>>
    /\ r_out = <<<< <<48>>, <<73>>, <<97, FIELD_DELIMITER, 98>> >>>>

(***************************************************************************)
(* C24: the lifecycle of a reader. A ClogReader is Ready only after its    *)
(* file was opened and its header validated; while Ready, read_records     *)
(* (and read_chunks under it) and tail can be called any number of times;  *)
(* close() makes it Closed, a second close() changes nothing, and a Closed *)
(* reader never becomes Ready again: no call on it yields a record.        *)
(***************************************************************************)
\* a call of the reader other than close() starts in this step
ReaderCalled ==
    /\ Len(r_calls') = Len(r_calls) + 1
    /\ r_calls'[Len(r_calls')] # "close"
ReaderClosed == Len(r_calls') = Len(r_calls) + 1 /\ r_calls'[Len(r_calls')] = "close"

C25_WriterRejectsBadCode ==
    [][/\ (w_state = "new" /\ w_state' # "new" /\ compression_code' \notin Codes)
              => (w_state' = "failed" /\ w_thread'[1].exc # "" /\ w_file' # "open")
       /\ (disk' # disk /\ Len(disk') >= 16)
              => RStripZero(SubSeq(disk', 7, 8)) \in {RStripZero(code) : code \in Codes}
      ]_vars

(***************************************************************************)
(* C26: the delimiter invariant. Every record byte string write_record     *)
(* appends to the buffer, whatever the level and message strings, holds    *)
(* the record delimiter exactly once, as its last byte; the field          *)
(* delimiter does not occur inside its timestamp or level field; and the   *)
(* newlines of the message occur in it only as the sentinel byte.          *)
(***************************************************************************)
Occurrences(b, d) == Cardinality({i \in 1..Len(b) : b[i] = d})
DelimiterInvariant(a) ==
    LET parts == Split(Utf8Decode(a.bytes).str, FIELD_DELIMITER, 2)
    IN /\ Occurrences(a.bytes, RECORD_DELIMITER) = 1
       /\ a.bytes[Len(a.bytes)] = RECORD_DELIMITER
       /\ Len(parts) = 3
       /\ parts[1] = a.timestamp
       /\ parts[2] = a.level
       /\ Occurrences(a.timestamp, FIELD_DELIMITER) = 0
       /\ Occurrences(a.level, FIELD_DELIMITER) = 0
       /\ parts[3] = Replace(a.message, RECORD_DELIMITER, SENTINEL) \o <<RECORD_DELIMITER>>

C26_DelimiterInvariant == \A i \in 1..Len(accepted) : DelimiterInvariant(accepted[i])

(***************************************************************************)
(* C27: the time trigger is opportunistic only. Chunks are appended to the *)
(* file only inside a write_record or close() call; while no such call is  *)
(* made, a buffered record stays in the buffer and is not written, however *)
(* much time passes beyond flush_interval; and the first write_record made *)
(* at least flush_interval after the last flush, or after construction,    *)
(* flushes in that same call.                                              *)
(***************************************************************************)
\* thread t is inside write_record or close(), holding the lock, at a file write
InCallWriting(t) ==
    /\ lock = t
    /\ w_thread[t].op \in {"write", "close"}
    /\ w_thread[t].pc \in {"header", "payload"}

C27_TimeTriggerOpportunistic ==
    [][/\ (disk' # disk \/ written' # written) => \E t \in Threads : InCallWriting(t)
       /\ buffer' # buffer
              => \E t \in Threads : Appends(t) \/ (InCallWriting(t) /\ w_thread[t].pc = "payload")
       /\ now' # now => UNCHANGED <<disk, bufvars, written>>
       /\ last_flush_time' # last_flush_time
              => (last_flush_time' = now /\ \E t \in Threads : FlushingCallReturns(t))
       /\ \A t \in Threads :
              (Appends(t) /\ w_file = "open")
                  => /\ accepted'[Len(accepted')].since = now - last_flush_time
                     /\ now - last_flush_time >= flush_interval
                            => /\ InCallWriting(t)'
                               /\ w_chunk'.header \o w_chunk'.payload
                                      = ChunkBytes(compression_code, Concat(buffer'),
                                                   Len(buffer'))
       /\ \A t \in Threads :
              (InCallWriting(t) /\ w_thread[t].op = "write" /\ w_file = "open")
                  => \/ InCallWriting(t)' /\ disk' = disk \o w_chunk.header
                     \/ /\ FlushingCallReturns(t)
                        /\ disk' = disk \o w_chunk.payload
                        /\ buffer' = <<>>
                     \/ w_thread'[t] = w_thread[t] /\ UNCHANGED <<disk, bufvars, lock>>
      ]_vars

\* a record was buffered, more than flush_interval passed with the record still in
\* the buffer, and the next write_record flushed both records in its call
C27_Witness ==
    /\ Len(accepted) = 2
    /\ accepted[1].since < flush_interval
    /\ accepted[2].since > flush_interval
    /\ accepted[2].records = 2
    /\ Len(written) = 1
    /\ written[1].by = "write"
    /\ written[1].count = 2
    /\ \A t \in Threads : w_thread[t].pc = "idle"

(***************************************************************************)
(* C28: the buffer's counters are consistent. In every state in which the  *)
(* writer's lock is not held, buffer_current_records is the number of      *)
(* entries of the buffer and buffer_current_size the sum of their lengths, *)
(* after any sequence of write_record, flush (successful or failed) and    *)
(* close() calls by any number of threads.                                 *)
(***************************************************************************)
C28_CountersConsistent ==
    lock = 0 =>
        /\ buffer_current_records = Len(buffer)
        /\ buffer_current_size = SumLen(buffer)

\* two threads have each had a record accepted, a flush has failed and the lock is
\* free with both records still in the buffer
C28_Witness ==
    /\ lock = 0
    /\ flush_failed
    /\ Len(buffer) = 2
    /\ Len(accepted) = 2
    /\ accepted[1].thread # accepted[2].thread
    /\ \A t \in Threads : w_thread[t].pc = "idle"

(***************************************************************************)
(* C29: at most once on disk. Every record passed to write_record is       *)
(* written to the file in at most one chunk, in every sequence of          *)
(* write_record and close() calls in which flush attempts fail after       *)
(* writing none, part or all of the chunk header and later attempts        *)
(* succeed.                                                                *)
(***************************************************************************)
\* the places of the byte string b in s
Places(b, s) == {k \in 0..(Len(s) - Len(b)) : SubSeq(s, k + 1, k + Len(b)) = b}
\* the chunks written that hold the record
ChunksHolding(a) == {j \in 1..Len(written) : Places(a.bytes, written[j].data) # {}}

C29_AtMostOnce ==
    \A i \in 1..Len(accepted) :
        /\ Cardinality(ChunksHolding(accepted[i])) <= 1
        /\ \A j \in ChunksHolding(accepted[i]) :
               Cardinality(Places(accepted[i].bytes, written[j].data)) = 1
        /\ Cardinality(Places(accepted[i].bytes, FileData(disk))) <= 1
        /\ compression_code = COMPRESSION_NONE
               => Cardinality(Places(accepted[i].bytes, disk)) <= 1

\* a flush failed part of the way through the chunk header, the next one succeeded,
\* and its chunk holds the record of the failed flush and the one after it
C29_Witness ==
    /\ flush_failed
    /\ Len(accepted) = 2
    /\ Len(written) = 1
    /\ ChunksHolding(accepted[1]) = {1}
    /\ ChunksHolding(accepted[2]) = {1}
    /\ Len(disk) = 16 + 1 + Len(WrittenBytes(written))
    /\ \A t \in Threads : w_thread[t].pc = "idle"

(***************************************************************************)
(* C30: no silent loss after close. A write_record call made after close() *)
(* has returned either raises an error or has its record written to the    *)
(* file: it never returns normally with the record left in the buffer.     *)
(***************************************************************************)
C30_NoSilentLoss ==
    [][(Appends(1) /\ closed_at # -1)
          => \/ w_thread'[1].exc # ""
             \/ w_thread'[1].pc \in {"header", "payload"}
      ]_vars

(***************************************************************************)
(* C31: tail agrees with a full read. On every file on which read_records  *)
(* runs to its end without error, tail(n) returns, for every n >= 0, the   *)
(* last min(n, total) of the tuples read_records yielded, also when a      *)
(* chunk holds fragments that read_records skips.                          *)
(***************************************************************************)
C31_TailAgreesWithRead ==
    (r_calls = <<"read", "tail">> /\ r_pc = "idle" /\ r_exc = "")
        => /\ tail_result = LastN(r_out, tail_n)
           /\ Len(tail_result) = Min(tail_n, Len(r_out))

(***************************************************************************)
(* C32: tail treats a truncated file as read_chunks does. When the file    *)
(* ends in a chunk header of 1 to 11 bytes or in a payload shorter than    *)
(* its header's compressed_size, tail(n) raises an error: it neither       *)
(* returns records parsed from the incomplete chunk nor passes over the    *)
(* incomplete data at the end.                                             *)
(***************************************************************************)
\* the bytes of the file after its last whole chunk
TrailingBytes(file) ==
    Len(file) - ChunkEnd(FileChunks(file), Len(FileChunks(file)))

\* the records of the file's whole chunks
WholeChunkRecords(file, code) ==
    UNION {{ChunkTriples(FileChunks(file)[k], code)[i] :
                i \in 1..Len(ChunkTriples(FileChunks(file)[k], code))} :
           k \in 1..Len(FileChunks(file))}

C32_TailOnTruncatedFile ==
    (r_calls = <<"tail">> /\ TrailingBytes(disk) > 0)
        => /\ r_pc # "idle"
           /\ \A i \in 1..Len(results) :
                  results[i] \in WholeChunkRecords(disk, r_compression_code)

(***************************************************************************)
(* C33: a ClogFileHandler passes its configuration to the writer it        *)
(* creates. Once ClogFileHandler(filename, mode, compression_code=c) has   *)
(* been constructed, its writer's mode is the handler's mode and its       *)
(* writer's compression code is c; the file's header stores c, and every   *)
(* chunk of the file decodes with codec c to records.                      *)
(***************************************************************************)
\* the compression code stored in the file's header
StoredCode(file) == SubSeq(file, 7, 7)
\* the chunk's payload decodes with the codec to whole records only
DecodesWith(chunk, code) ==
    LET d == DecompressChunk(code, chunk.payload, TRUE)
    IN /\ d.exc = ""
       /\ Len(d.data) = chunk.header.uncompressed_size
       /\ Len(ChunkTriples(chunk, code)) = chunk.header.count

C33_HandlerPassesConfiguration ==
    h_state \in {"ready", "closed"}
        => /\ mode = h_mode
           /\ compression_code = h_compression_code
           /\ StoredCode(disk) = h_compression_code
           /\ \A k \in 1..Len(FileChunks(disk)) :
                  DecodesWith(FileChunks(disk)[k], h_compression_code)
====
